---- MODULE Spec2Model ----
(***************************************************************************)
(* State-machine model of the AgentScope Local telemetry store:            *)
(*   - ModelDetector / ModelRegistry      (agentscope/model_detector.py,   *)
(*                                         agentscope/model_registry.py)   *)
(*   - SQLiteSpanExporter.export          (agentscope/exporter.py)         *)
(*   - log_embedding / get_similar_vectors (agentscope/rag_logger.py,      *)
(*                                         agentscope/utils.py)            *)
(*   - cli clear                          (cli.py)                         *)
(*                                                                         *)
(* Python strings are modelled as sequences of one-character strings so    *)
(* that lower(), substring search, startswith and hex formatting are       *)
(* computed, not assumed.  Attribute values are tagged scalars.            *)
(***************************************************************************)
EXTENDS Integers, Sequences, FiniteSets, TLC

-----------------------------------------------------------------------------
(* Bounds of the model *)

\* longest batch handed to one export call
MaxBatch == 2
\* number of embeddings that may be logged in one behaviour
MaxVectors == 2
\* largest value of the `limit` argument of get_similar_vectors
MaxLimit == 2

-----------------------------------------------------------------------------
(* Python scalars: str, int, float, bool and None as tagged records.       *)
(* A float carries its value in thousandths.                               *)

StrV(s) == [t |-> "str", s |-> s, n |-> 0]
IntV(n) == [t |-> "int", s |-> <<>>, n |-> n]
FloatV(milli) == [t |-> "float", s |-> <<>>, n |-> milli]
BoolV(b) == [t |-> "bool", s |-> <<>>, n |-> IF b THEN 1 ELSE 0]
None == [t |-> "none", s |-> <<>>, n |-> 0]

\* the outcome of a Python call: a value, or an exception of a named class
Ok(v) == [ok |-> TRUE, v |-> v, exc |-> "none"]
Raise(e) == [ok |-> FALSE, v |-> None, exc |-> e]

\* dict.get(key, default)
Get(attributes, key, default) ==
    IF key \in DOMAIN attributes THEN attributes[key] ELSE default

\* Python truthiness of a scalar
Truthy(v) ==
    CASE v.t = "none" -> FALSE
      [] v.t = "str" -> Len(v.s) > 0
      [] OTHER -> v.n # 0

-----------------------------------------------------------------------------
(* String primitives *)

UpperLetters ==
    <<"A","B","C","D","E","F","G","H","I","J","K","L","M",
      "N","O","P","Q","R","S","T","U","V","W","X","Y","Z">>
LowerLetters ==
    <<"a","b","c","d","e","f","g","h","i","j","k","l","m",
      "n","o","p","q","r","s","t","u","v","w","x","y","z">>

LowerChar(c) ==
    IF \E i \in 1..26 : UpperLetters[i] = c
    THEN LowerLetters[CHOOSE i \in 1..26 : UpperLetters[i] = c]
    ELSE c

\* str.lower()
Lower(s) == [i \in 1..Len(s) |-> LowerChar(s[i])]

\* str.startswith(p)
StartsWith(s, p) ==
    /\ Len(p) <= Len(s)
    /\ \A i \in 1..Len(p) : s[i] = p[i]

\* `p in s` for strings; also re.search(p, s) for a pattern without
\* metacharacters other than escaped dots
Contains(s, p) ==
    \E k \in 0..(Len(s) - Len(p)) : \A i \in 1..Len(p) : s[k + i] = p[i]

HexDigits == <<"0","1","2","3","4","5","6","7","8","9","a","b","c","d","e","f">>

RECURSIVE HexOf(_)
\* the lowercase hexadecimal digits of a natural number, no padding
HexOf(x) ==
    IF x < 16 THEN <<HexDigits[x + 1]>>
    ELSE Append(HexOf(x \div 16), HexDigits[(x % 16) + 1])

RECURSIVE Zeros(_)
Zeros(k) == IF k <= 0 THEN <<>> ELSE <<"0">> \o Zeros(k - 1)

\* f"{x:0{width}x}"
FormatHex(x, width) == Zeros(width - Len(HexOf(x))) \o HexOf(x)

\* OpenTelemetry span ids are 64-bit and trace ids 128-bit integers.  Where
\* the full width matters an id is held as its 16-bit limbs, most significant
\* first (4 limbs for a span id, 8 for a trace id).

RECURSIVE HexOfLimbsPadded(_)
\* the hexadecimal digits of the limbs, four for each limb
HexOfLimbsPadded(limbs) ==
    IF Len(limbs) = 0 THEN <<>>
    ELSE FormatHex(limbs[1], 4) \o HexOfLimbsPadded(Tail(limbs))

RECURSIVE StripZeros(_)
\* a digit string without its leading zeros, keeping one digit at least
StripZeros(digits) ==
    IF Len(digits) > 1 /\ digits[1] = "0" THEN StripZeros(Tail(digits)) ELSE digits

\* the lowercase hexadecimal digits of the integer held in `limbs`
HexOfLimbs(limbs) == StripZeros(HexOfLimbsPadded(limbs))

\* the x presentation type with neither fill nor width
FormatHexIdUnpadded(limbs, width) == HexOfLimbs(limbs)

\* f"{x:0{width}x}" for the integer held in `limbs`: the digits of the
\* integer, filled with zeros on the left up to `width` characters
FormatHexId(limbs, width) ==
    Zeros(width - Len(HexOfLimbs(limbs))) \o HexOfLimbs(limbs)

DecDigits == <<"0","1","2","3","4","5","6","7","8","9">>
DigitValue(c) == (CHOOSE i \in 1..10 : DecDigits[i] = c) - 1
IsDigit(c) == \E i \in 1..10 : DecDigits[i] = c

RECURSIVE DecValue(_)
DecValue(s) ==
    IF Len(s) = 0 THEN 0
    ELSE 10 * DecValue(SubSeq(s, 1, Len(s) - 1)) + DigitValue(s[Len(s)])

\* int(v): int and bool convert, a float truncates toward zero, a string
\* parses when it is an optionally signed run of decimal digits and raises
\* ValueError otherwise, None raises TypeError
PyInt(v) ==
    CASE v.t = "int" -> Ok(v.n)
      [] v.t = "bool" -> Ok(v.n)
      [] v.t = "float" ->
            Ok(IF v.n >= 0 THEN v.n \div 1000 ELSE -((-v.n) \div 1000))
      [] v.t = "str" ->
            LET signed == Len(v.s) > 0 /\ v.s[1] \in {"+", "-"}
                body == IF signed THEN Tail(v.s) ELSE v.s
            IN  IF Len(body) > 0 /\ \A i \in 1..Len(body) : IsDigit(body[i])
                THEN Ok(IF signed /\ v.s[1] = "-"
                        THEN -DecValue(body) ELSE DecValue(body))
                ELSE Raise("ValueError")
      [] OTHER -> Raise("TypeError")

-----------------------------------------------------------------------------
(* String literals of the source *)

s_ollama == <<"o","l","l","a","m","a">>
s_lm_studio == <<"l","m","_","s","t","u","d","i","o">>
s_openai == <<"o","p","e","n","a","i">>
s_azure_openai == <<"a","z","u","r","e","_","o","p","e","n","a","i">>
s_anthropic == <<"a","n","t","h","r","o","p","i","c">>
s_localai == <<"l","o","c","a","l","a","i">>
s_llama_cpp == <<"l","l","a","m","a","_","c","p","p">>
s_google == <<"g","o","o","g","l","e">>
s_unknown == <<"u","n","k","n","o","w","n">>

s_gpt == <<"g","p","t">>
s_gpt_dash == <<"g","p","t","-">>
s_claude == <<"c","l","a","u","d","e">>
s_llama == <<"l","l","a","m","a">>
s_mistral == <<"m","i","s","t","r","a","l">>
s_mixtral == <<"m","i","x","t","r","a","l">>
s_phi == <<"p","h","i">>
s_gemini == <<"g","e","m","i","n","i">>
s_palm == <<"p","a","l","m">>

s_GPT == <<"G","P","T">>
s_Claude == <<"C","l","a","u","d","e">>
s_Llama == <<"L","l","a","m","a">>
s_Mistral == <<"M","i","s","t","r","a","l">>
s_Phi == <<"P","h","i">>
s_Gemini == <<"G","e","m","i","n","i">>
s_Other == <<"O","t","h","e","r">>

s_no_span == <<"n","o","_","s","p","a","n">>
s_no_trace == <<"n","o","_","t","r","a","c","e">>

-----------------------------------------------------------------------------
(* ModelDetector (agentscope/model_detector.py) *)

\* PROVIDER_PATTERNS in declaration order; every pattern is a literal once
\* its escaped dots are read as dots
PROVIDER_PATTERNS ==
    << [provider |-> s_ollama, patterns |->
          << <<"l","o","c","a","l","h","o","s","t",":","1","1","4","3","4">>,
             <<"1","2","7",".","0",".","0",".","1",":","1","1","4","3","4">>,
             <<"/","o","l","l","a","m","a">> >>],
       [provider |-> s_lm_studio, patterns |->
          << <<"l","o","c","a","l","h","o","s","t",":","1","2","3","4">>,
             <<"/","l","m","-","s","t","u","d","i","o">> >>],
       [provider |-> s_openai, patterns |->
          << <<"a","p","i",".","o","p","e","n","a","i",".","c","o","m">>,
             <<"/","o","p","e","n","a","i","/">> >>],
       [provider |-> s_azure_openai, patterns |->
          << <<".","o","p","e","n","a","i",".","a","z","u","r","e",".","c","o","m">>,
             <<"/","o","p","e","n","a","i","/","d","e","p","l","o","y","m","e","n","t","s","/">> >>],
       [provider |-> s_anthropic, patterns |->
          << <<"a","p","i",".","a","n","t","h","r","o","p","i","c",".","c","o","m">> >>],
       [provider |-> s_localai, patterns |->
          << <<"/","l","o","c","a","l","a","i">>,
             <<"l","o","c","a","l","h","o","s","t",":","8","0","8","0">> >>] >>

\* ModelDetector._detect_from_url on the lower-cased url: the first provider,
\* in declaration order, one of whose patterns occurs in the url; None if none
RECURSIVE MatchProvider(_, _)
MatchProvider(url_lower, i) ==
    IF i > Len(PROVIDER_PATTERNS) THEN None
    ELSE IF \E j \in 1..Len(PROVIDER_PATTERNS[i].patterns) :
                Contains(url_lower, PROVIDER_PATTERNS[i].patterns[j])
         THEN StrV(PROVIDER_PATTERNS[i].provider)
         ELSE MatchProvider(url_lower, i + 1)

\* url.lower() raises AttributeError when url is not a str
_detect_from_url(url) ==
    IF url.t # "str" THEN Raise("AttributeError")
    ELSE Ok(MatchProvider(Lower(url.s), 1))

_infer_from_model_name(model) ==
    IF model.t # "str" THEN Raise("AttributeError")
    ELSE LET model_lower == Lower(model.s)
         IN  Ok(StrV(
               CASE StartsWith(model_lower, s_gpt_dash) -> s_openai
                 [] ~StartsWith(model_lower, s_gpt_dash)
                    /\ Contains(model_lower, s_claude) -> s_anthropic
                 [] ~StartsWith(model_lower, s_gpt_dash)
                    /\ ~Contains(model_lower, s_claude)
                    /\ \E x \in {s_llama, s_mistral, s_mixtral, s_phi} :
                          Contains(model_lower, x) -> s_ollama
                 [] ~StartsWith(model_lower, s_gpt_dash)
                    /\ ~Contains(model_lower, s_claude)
                    /\ ~(\E x \in {s_llama, s_mistral, s_mixtral, s_phi} :
                          Contains(model_lower, x))
                    /\ (Contains(model_lower, s_gemini)
                        \/ Contains(model_lower, s_palm)) -> s_google
                 [] OTHER -> s_unknown))

url_fields == <<"server.address", "url.full", "http.url", "base_url">>

\* the loop over url_fields of detect_provider, from field i on: the first
\* field present whose url matches a provider decides; a field that is present
\* with a non-str value raises when the loop reaches it; None when the loop
\* ends without a match
RECURSIVE DetectFromFields(_, _)
DetectFromFields(attributes, i) ==
    IF i > Len(url_fields) THEN Ok(None)
    ELSE IF url_fields[i] \in DOMAIN attributes
         THEN LET provider == _detect_from_url(attributes[url_fields[i]])
              IN  IF ~provider.ok THEN provider
                  ELSE IF Truthy(provider.v) THEN provider
                  ELSE DetectFromFields(attributes, i + 1)
         ELSE DetectFromFields(attributes, i + 1)

\* The explicit-attribute branch of detect_provider
ExplicitProvider(attributes) ==
    IF attributes["gen_ai.system"].t # "str" THEN Raise("AttributeError")
    ELSE Ok(StrV(Lower(attributes["gen_ai.system"].s)))

\* detect_provider with the url patterns consulted before gen_ai.system
detect_provider_url_first(attributes) ==
    LET byUrl == DetectFromFields(attributes, 1)
    IN  IF ~byUrl.ok THEN byUrl
        ELSE IF Truthy(byUrl.v) THEN byUrl
        ELSE IF "gen_ai.system" \in DOMAIN attributes
             THEN ExplicitProvider(attributes)
             ELSE IF "gen_ai.request.model" \in DOMAIN attributes
                  THEN _infer_from_model_name(attributes["gen_ai.request.model"])
                  ELSE Ok(StrV(s_unknown))

\* ModelDetector.detect_provider
detect_provider(attributes) ==
    IF "gen_ai.system" \in DOMAIN attributes
    THEN ExplicitProvider(attributes)
    ELSE LET byUrl == DetectFromFields(attributes, 1)
         IN  IF ~byUrl.ok THEN byUrl
             ELSE IF Truthy(byUrl.v) THEN byUrl
             ELSE IF "gen_ai.request.model" \in DOMAIN attributes
                  THEN _infer_from_model_name(attributes["gen_ai.request.model"])
                  ELSE Ok(StrV(s_unknown))

-----------------------------------------------------------------------------
(* ModelRegistry (agentscope/model_registry.py) *)

\* a cost in USD rounded to 6 decimals, carried in millionths of a dollar
UsdV(micro) == [t |-> "usd", s |-> <<>>, n |-> micro]

\* ModelRegistry.PRICING as first declared, in declaration order; rates are
\* in millionths of a dollar per 1K tokens (0.03 USD is 30000)
BUILTIN_PRICING ==
    << [key |-> <<"g","p","t","-","4">>,
        input_cost_per_1k |-> 30000, output_cost_per_1k |-> 60000],
       [key |-> <<"g","p","t","-","4","-","3","2","k">>,
        input_cost_per_1k |-> 60000, output_cost_per_1k |-> 120000],
       [key |-> <<"g","p","t","-","4","-","t","u","r","b","o">>,
        input_cost_per_1k |-> 10000, output_cost_per_1k |-> 30000],
       [key |-> <<"g","p","t","-","4","o">>,
        input_cost_per_1k |-> 5000, output_cost_per_1k |-> 15000],
       [key |-> <<"g","p","t","-","3",".","5","-","t","u","r","b","o">>,
        input_cost_per_1k |-> 500, output_cost_per_1k |-> 1500],
       [key |-> <<"c","l","a","u","d","e","-","3","-","o","p","u","s">>,
        input_cost_per_1k |-> 15000, output_cost_per_1k |-> 75000],
       [key |-> <<"c","l","a","u","d","e","-","3","-","s","o","n","n","e","t">>,
        input_cost_per_1k |-> 3000, output_cost_per_1k |-> 15000],
       [key |-> <<"c","l","a","u","d","e","-","3","-","h","a","i","k","u">>,
        input_cost_per_1k |-> 250, output_cost_per_1k |-> 1250] >>

NoPricing == [key |-> <<>>, input_cost_per_1k |-> -1, output_cost_per_1k |-> -1]

FREE_PROVIDERS == {s_ollama, s_lm_studio, s_llama_cpp, s_localai}
PAID_PROVIDERS == {s_openai, s_anthropic, s_google}

\* ModelRegistry.get_pricing over the pricing table `pricing`: the result
\* is Ok(entry), Ok(NoPricing) for Python's None, or the AttributeError of
\* model_name.lower() on a model name that is not a str
get_pricing(pricing, model_name, provider) ==
    IF provider \in FREE_PROVIDERS THEN Ok(NoPricing)
    ELSE IF model_name.t = "str"
            /\ \E i \in 1..Len(pricing) : pricing[i].key = model_name.s
    THEN Ok(pricing[CHOOSE i \in 1..Len(pricing) : pricing[i].key = model_name.s])
    ELSE IF model_name.t # "str" THEN Raise("AttributeError")
    ELSE LET model_lower == Lower(model_name.s)
             hits == {i \in 1..Len(pricing) : Contains(model_lower, pricing[i].key)}
         IN  IF hits = {} THEN Ok(NoPricing)
             ELSE Ok(pricing[CHOOSE i \in hits : \A j \in hits : i <= j])

\* ModelRegistry.register_custom_model, as far as PRICING goes: `if pricing:`
\* skips None and the empty dict (both NoPricing here); otherwise the entry
\* under `name` is replaced where it stands, or added at the end of the dict.
register_custom_model(pricing_table, name, pricing) ==
    LET entry == [key |-> name,
                  input_cost_per_1k |-> pricing.input_cost_per_1k,
                  output_cost_per_1k |-> pricing.output_cost_per_1k]
    IN  IF pricing = NoPricing THEN pricing_table
        ELSE IF \E i \in 1..Len(pricing_table) : pricing_table[i].key = name
        THEN [i \in 1..Len(pricing_table) |->
                 IF pricing_table[i].key = name THEN entry ELSE pricing_table[i]]
        ELSE Append(pricing_table, entry)

\* ModelRegistry.EMBEDDING_DIMS and ModelRegistry.TOKEN_LIMITS as first
\* declared, in declaration order
BUILTIN_EMBEDDING_DIMS ==
    << [key |-> <<"t","e","x","t","-","e","m","b","e","d","d","i","n","g","-","3","-","s","m","a","l","l">>, value |-> 1536],
       [key |-> <<"t","e","x","t","-","e","m","b","e","d","d","i","n","g","-","3","-","l","a","r","g","e">>, value |-> 3072],
       [key |-> <<"t","e","x","t","-","e","m","b","e","d","d","i","n","g","-","a","d","a","-","0","0","2">>, value |-> 1536],
       [key |-> <<"b","g","e","-","b","a","s","e">>, value |-> 768],
       [key |-> <<"b","g","e","-","l","a","r","g","e">>, value |-> 1024],
       [key |-> <<"b","g","e","-","s","m","a","l","l">>, value |-> 384],
       [key |-> <<"a","l","l","-","m","i","n","i","l","m","-","l","6","-","v","2">>, value |-> 384],
       [key |-> <<"a","l","l","-","m","i","n","i","l","m","-","l","1","2","-","v","2">>, value |-> 384],
       [key |-> <<"a","l","l","-","m","p","n","e","t","-","b","a","s","e","-","v","2">>, value |-> 768],
       [key |-> <<"g","t","e","-","s","m","a","l","l">>, value |-> 384],
       [key |-> <<"g","t","e","-","b","a","s","e">>, value |-> 768],
       [key |-> <<"g","t","e","-","l","a","r","g","e">>, value |-> 1024],
       [key |-> <<"e","5","-","s","m","a","l","l">>, value |-> 384],
       [key |-> <<"e","5","-","b","a","s","e">>, value |-> 768],
       [key |-> <<"e","5","-","l","a","r","g","e">>, value |-> 1024],
       [key |-> <<"s","e","n","t","e","n","c","e","-","t","r","a","n","s","f","o","r","m","e","r","s","/","a","l","l","-","m","i","n","i","l","m","-","l","6","-","v","2">>, value |-> 384],
       [key |-> <<"s","e","n","t","e","n","c","e","-","t","r","a","n","s","f","o","r","m","e","r","s","/","a","l","l","-","m","p","n","e","t","-","b","a","s","e","-","v","2">>, value |-> 768] >>

BUILTIN_TOKEN_LIMITS ==
    << [key |-> <<"g","p","t","-","4">>, value |-> 8192],
       [key |-> <<"g","p","t","-","4","-","3","2","k">>, value |-> 32768],
       [key |-> <<"g","p","t","-","4","-","t","u","r","b","o">>, value |-> 128000],
       [key |-> <<"g","p","t","-","4","o">>, value |-> 128000],
       [key |-> <<"g","p","t","-","3",".","5","-","t","u","r","b","o">>, value |-> 16385],
       [key |-> <<"o","1","-","p","r","e","v","i","e","w">>, value |-> 128000],
       [key |-> <<"o","1","-","m","i","n","i">>, value |-> 128000],
       [key |-> <<"c","l","a","u","d","e","-","3","-","o","p","u","s">>, value |-> 200000],
       [key |-> <<"c","l","a","u","d","e","-","3","-","s","o","n","n","e","t">>, value |-> 200000],
       [key |-> <<"c","l","a","u","d","e","-","3","-","h","a","i","k","u">>, value |-> 200000],
       [key |-> <<"c","l","a","u","d","e","-","2">>, value |-> 100000],
       [key |-> <<"l","l","a","m","a","-","2","-","7","b">>, value |-> 4096],
       [key |-> <<"l","l","a","m","a","-","2","-","1","3","b">>, value |-> 4096],
       [key |-> <<"l","l","a","m","a","-","2","-","7","0","b">>, value |-> 4096],
       [key |-> <<"l","l","a","m","a","-","3","-","8","b">>, value |-> 8192],
       [key |-> <<"l","l","a","m","a","-","3","-","7","0","b">>, value |-> 8192],
       [key |-> <<"m","i","s","t","r","a","l","-","7","b">>, value |-> 8192],
       [key |-> <<"m","i","x","t","r","a","l","-","8","x","7","b">>, value |-> 32768],
       [key |-> <<"p","h","i","-","2">>, value |-> 2048],
       [key |-> <<"p","h","i","-","3">>, value |-> 4096] >>

\* table[key] for a key the table holds
Lookup(table, key) ==
    table[CHOOSE i \in 1..Len(table) : table[i].key = key].value

\* the fuzzy match tried before the exact one
get_embedding_dim_fuzzy_first(table, model_name) ==
    LET model_lower == Lower(model_name.s)
        hits == {i \in 1..Len(table) : Contains(model_lower, table[i].key)
                                       \/ Contains(table[i].key, model_lower)}
    IN  IF hits # {} THEN IntV(table[CHOOSE i \in hits : \A j \in hits : i <= j].value)
        ELSE IntV(1536)

\* ModelRegistry.get_embedding_dim over the table EMBEDDING_DIMS
get_embedding_dim(table, model_name) ==
    IF \E i \in 1..Len(table) : table[i].key = model_name.s
    THEN IntV(Lookup(table, model_name.s))
    ELSE LET model_lower == Lower(model_name.s)
             hits == {i \in 1..Len(table) : Contains(model_lower, table[i].key)
                                            \/ Contains(table[i].key, model_lower)}
         IN  IF hits # {} THEN IntV(table[CHOOSE i \in hits : \A j \in hits : i <= j].value)
             ELSE IntV(1536)

\* ModelRegistry.get_token_limit over the table TOKEN_LIMITS
get_token_limit(table, model_name) ==
    IF \E i \in 1..Len(table) : table[i].key = model_name.s
    THEN IntV(Lookup(table, model_name.s))
    ELSE LET model_lower == Lower(model_name.s)
             hits == {i \in 1..Len(table) : Contains(model_lower, table[i].key)}
         IN  IF hits # {} THEN IntV(table[CHOOSE i \in hits : \A j \in hits : i <= j].value)
             ELSE None

\* `if value: table[name] = value`: None and 0 are skipped; otherwise the
\* entry under `name` is replaced where it stands, or added at the end
SetIfGiven(table, name, value) ==
    IF ~Truthy(value) THEN table
    ELSE IF \E i \in 1..Len(table) : table[i].key = name
    THEN [i \in 1..Len(table) |->
             IF table[i].key = name THEN [key |-> name, value |-> value.n] ELSE table[i]]
    ELSE Append(table, [key |-> name, value |-> value.n])

\* ModelRegistry.get_model_family
get_model_family(model_name) ==
    IF model_name.t # "str" THEN Raise("AttributeError")
    ELSE LET model_lower == Lower(model_name.s)
         IN  Ok(StrV(
               IF Contains(model_lower, s_gpt) THEN s_GPT
               ELSE IF Contains(model_lower, s_claude) THEN s_Claude
               ELSE IF Contains(model_lower, s_llama) THEN s_Llama
               ELSE IF Contains(model_lower, s_mistral)
                       \/ Contains(model_lower, s_mixtral) THEN s_Mistral
               ELSE IF Contains(model_lower, s_phi) THEN s_Phi
               ELSE IF Contains(model_lower, s_gemini) THEN s_Gemini
               ELSE s_Other))

\* round(x / 1000) to the nearest integer, ties to even: round(cost, 6) of a
\* cost whose exact value is x / 1000 millionths of a dollar
RoundHalfEven(x) ==
    LET q == x \div 1000
        r == x % 1000
    IN  IF r < 500 THEN q
        ELSE IF r > 500 THEN q + 1
        ELSE IF q % 2 = 0 THEN q ELSE q + 1

\* the token-count keys read by extract_cost_info, in the order they are read
USAGE_KEYS ==
    << [attr |-> "gen_ai.usage.prompt_tokens", field |-> "prompt_tokens"],
       [attr |-> "gen_ai.usage.completion_tokens", field |-> "completion_tokens"],
       [attr |-> "gen_ai.usage.total_tokens", field |-> "total_tokens"],
       [attr |-> "gen_ai.usage.reasoning_tokens", field |-> "reasoning_tokens"] >>

\* usage[field] after the four `if key in attributes: usage[...] = int(...)`
\* statements; None stands for a key that was not set
UsageField(attributes, i) ==
    IF USAGE_KEYS[i].attr \in DOMAIN attributes
    THEN LET c == PyInt(attributes[USAGE_KEYS[i].attr])
         IN  IF c.ok THEN Ok(IntV(c.v)) ELSE c
    ELSE Ok(None)

\* extract_cost_info with no regard for the provider: a cost is computed
\* whenever the pricing table has an entry for the model
extract_cost_info_any_provider(pricing_table, attributes, provider) ==
    LET counts == [i \in 1..4 |-> UsageField(attributes, i)]
        bad == {i \in 1..4 : ~counts[i].ok}
    IN  IF bad # {} THEN counts[CHOOSE i \in bad : \A j \in bad : i <= j]
        ELSE
          LET usage == [prompt_tokens |-> counts[1].v,
                        completion_tokens |-> counts[2].v,
                        total_tokens |-> counts[3].v,
                        reasoning_tokens |-> counts[4].v,
                        estimated_cost_usd |-> None]
              model == Get(attributes, "gen_ai.request.model", StrV(<<>>))
              pricing == get_pricing(pricing_table, model, s_unknown)
          IN  IF ~pricing.ok THEN pricing
              ELSE IF pricing.v # NoPricing
                      /\ usage.prompt_tokens # None
                      /\ usage.completion_tokens # None
              THEN Ok([usage EXCEPT !.estimated_cost_usd =
                         UsdV(RoundHalfEven(
                            usage.prompt_tokens.n * pricing.v.input_cost_per_1k
                            + usage.completion_tokens.n * pricing.v.output_cost_per_1k))])
              ELSE Ok(usage)

\* ModelDetector.extract_cost_info: the usage dict as a record whose absent
\* keys are None, or the first exception raised on the way
extract_cost_info(pricing_table, attributes, provider) ==
    LET counts == [i \in 1..4 |-> UsageField(attributes, i)]
        bad == {i \in 1..4 : ~counts[i].ok}
    IN  IF bad # {} THEN counts[CHOOSE i \in bad : \A j \in bad : i <= j]
        ELSE
          LET usage == [prompt_tokens |-> counts[1].v,
                        completion_tokens |-> counts[2].v,
                        total_tokens |-> counts[3].v,
                        reasoning_tokens |-> counts[4].v,
                        estimated_cost_usd |-> None]
          IN  IF provider \in PAID_PROVIDERS
              THEN LET model == Get(attributes, "gen_ai.request.model", StrV(<<>>))
                       pricing == get_pricing(pricing_table, model, provider)
                   IN  IF ~pricing.ok THEN pricing
                       ELSE IF pricing.v # NoPricing
                               /\ usage.prompt_tokens # None
                               /\ usage.completion_tokens # None
                       THEN Ok([usage EXCEPT !.estimated_cost_usd =
                                  UsdV(RoundHalfEven(
                                     usage.prompt_tokens.n * pricing.v.input_cost_per_1k
                                     + usage.completion_tokens.n * pricing.v.output_cost_per_1k))])
                       ELSE Ok(usage)
              ELSE Ok(usage)

-----------------------------------------------------------------------------
(* State *)

VARIABLES
    spans,            \* the rows of table spans
    vector_tables,    \* table name -> rows of that vec0 table (rowid -> embedding)
    vector_metadata,  \* the rows of table vector_metadata
    vm_seq,           \* sqlite_sequence entry of vector_metadata (AUTOINCREMENT)
    PRICING,          \* ModelRegistry.PRICING, class-level mutable table
    schema,           \* the database file: whether it exists, whether it holds
                      \* table spans, and the declared columns of that table
    ret,              \* the call last made and what it returned or raised
    latest,           \* history: span_id -> the span last committed by export
    logged,           \* history: vector_metadata id -> the vector logged with it
    sessions,         \* the Session objects constructed so far, by identity
    objects,          \* the components the sessions created, by identity
    _instance,        \* Session._instance (0: None)
    _session,         \* agentscope._session (0: None)
    _TRACER_PROVIDER, \* the global tracer provider of opentelemetry.trace (0: unset)
    wrappers,         \* the functions trace_function has decorated
    frame,            \* the call of a decorated function in flight
    otel_spans,       \* the spans start_as_current_span has entered, in order
    EMBEDDING_DIMS,   \* ModelRegistry.EMBEDDING_DIMS, class-level mutable table
    TOKEN_LIMITS,     \* ModelRegistry.TOKEN_LIMITS, class-level mutable table
    threads,          \* the calls running concurrently, each on its own connection
    lock,             \* the connection holding the write lock of the database file
                      \* (0: none)
    upgrade           \* history: the store as it was at the start, and the schema
                      \* operations (bootstrap, migrations) that have run on it

sessVars == <<sessions, objects, _instance, _session, _TRACER_PROVIDER>>
traceVars == <<wrappers, frame, otel_spans>>
regVars == <<EMBEDDING_DIMS, TOKEN_LIMITS>>
thrVars == <<threads, lock>>
histVars == <<upgrade>>

\* the state of the Python process outside the store
procVars == <<sessVars, traceVars, regVars, thrVars, histVars>>

vars == <<spans, vector_tables, vector_metadata, vm_seq, PRICING, schema, ret,
          latest, logged, procVars>>

spanVars == <<spans, latest>>
vecVars == <<vector_tables, vector_metadata, vm_seq, logged>>

-----------------------------------------------------------------------------
(* The schema of table spans (agentscope/exporter.py, migrations/) *)

Column(name, type, default) == [name |-> name, type |-> type, default |-> default]

\* the columns of CREATE TABLE spans up to the enhanced model fields
BASE_COLUMNS ==
    << Column("span_id", "TEXT PRIMARY KEY", None),
       Column("trace_id", "TEXT NOT NULL", None),
       Column("parent_span_id", "TEXT", None),
       Column("name", "TEXT", None),
       Column("kind", "TEXT", None),
       Column("start_time", "INTEGER", None),
       Column("end_time", "INTEGER", None),
       Column("status_code", "TEXT", None),
       Column("status_message", "TEXT", None),
       Column("attributes", "JSON", None),
       Column("events", "JSON", None),
       Column("resource", "JSON", None),
       Column("provider", "TEXT", None),
       Column("model_name", "TEXT", None),
       Column("model_family", "TEXT", None),
       Column("prompt_tokens", "INTEGER", None),
       Column("completion_tokens", "INTEGER", None),
       Column("total_tokens", "INTEGER", None),
       Column("reasoning_tokens", "INTEGER", None),
       Column("estimated_cost_usd", "REAL", None) >>

\* all_columns of migrations/add_performance_metrics.py
performance_columns ==
    << Column("ttft_ms", "REAL", None),
       Column("tokens_per_second", "REAL", None),
       Column("generation_time_ms", "REAL", None),
       Column("temperature", "REAL", None),
       Column("top_p", "REAL", None),
       Column("top_k", "INTEGER", None),
       Column("max_tokens", "INTEGER", None),
       Column("context_window_size", "INTEGER", None),
       Column("cpu_percent", "REAL", None),
       Column("memory_mb", "REAL", None),
       Column("gpu_utilization", "REAL", None),
       Column("gpu_memory_used_mb", "REAL", None) >>

\* streaming_columns of migrations/add_streaming_support.py; DEFAULT FALSE
\* is the integer 0
streaming_columns ==
    << Column("streaming_enabled", "BOOLEAN DEFAULT FALSE", IntV(0)),
       Column("streaming_chunk_count", "INTEGER", None),
       Column("streaming_ttft_ms", "REAL", None),
       Column("streaming_total_time_ms", "REAL", None),
       Column("streaming_avg_inter_chunk_ms", "REAL", None),
       Column("streaming_per_token_ms", "REAL", None) >>

\* column name -> declared type, for a list of columns
Declared(cols) ==
    [c \in {cols[i].name : i \in 1..Len(cols)} |->
        cols[CHOOSE i \in 1..Len(cols) : cols[i].name = c].type]

\* the database file as _init_schema creates it: CREATE TABLE spans with the
\* base, performance and streaming columns
CurrentSchema ==
    [file |-> TRUE, table |-> TRUE,
     columns |-> Declared(BASE_COLUMNS \o performance_columns \o streaming_columns)]

\* the columns named by the INSERT statement of export
INSERT_COLUMNS == DOMAIN CurrentSchema.columns

-----------------------------------------------------------------------------
(* SQLiteSpanExporter.export (agentscope/exporter.py) *)

\* a serializer that writes every value as a JSON number or string, a bool
\* as 0 or 1
JsonScalarBoolAsInt(v) ==
    CASE v.t = "str" -> [j |-> "string", s |-> v.s, n |-> 0]
      [] v.t = "float" -> [j |-> "real", s |-> <<>>, n |-> v.n]
      [] v.t = "none" -> [j |-> "null", s |-> <<>>, n |-> 0]
      [] OTHER -> [j |-> "integer", s |-> <<>>, n |-> v.n]

\* json.dumps of one scalar: the JSON token it is written as
JsonScalar(v) ==
    CASE v.t = "str" -> [j |-> "string", s |-> v.s, n |-> 0]
      [] v.t = "int" -> [j |-> "integer", s |-> <<>>, n |-> v.n]
      [] v.t = "float" -> [j |-> "real", s |-> <<>>, n |-> v.n]
      [] v.t = "bool" -> [j |-> IF v.n = 1 THEN "true" ELSE "false", s |-> <<>>, n |-> 0]
      [] OTHER -> [j |-> "null", s |-> <<>>, n |-> 0]

\* json.dumps(dict(m)) for a string-keyed map of scalars: the JSON object
json_dumps(m) == [k \in DOMAIN m |-> JsonScalar(m[k])]

\* json.loads of one JSON token
FromJson(j) ==
    CASE j.j = "string" -> StrV(j.s)
      [] j.j = "integer" -> IntV(j.n)
      [] j.j = "real" -> FloatV(j.n)
      [] j.j = "true" -> BoolV(TRUE)
      [] j.j = "false" -> BoolV(FALSE)
      [] OTHER -> None

\* json.loads of a JSON object of scalars
json_loads(obj) == [k \in DOMAIN obj |-> FromJson(obj[k])]

\* the empty dict, and "{}"
EmptyMap == [k \in {} |-> None]

\* json.dumps of the list of events
events_json(events) ==
    [i \in 1..Len(events) |->
        [name |-> events[i].name, timestamp |-> events[i].timestamp,
         attributes |-> json_dumps(events[i].attributes)]]

\* how sqlite3 binds a Python value to a statement parameter: a bool is
\* bound as the integer 0 or 1, None as NULL, the rest as themselves
Bind(v) == IF v.t = "bool" THEN IntV(v.n) ELSE v

\* One iteration of the loop of export (lines 101-201): the parameter tuple
\* built for `span`, or the exception raised while building it
BuildRow(pricing_table, span) ==
    LET attrs == span.attributes
        provider == detect_provider(attrs)
        model_name == Get(attrs, "gen_ai.request.model",
                          Get(attrs, "gen_ai.response.model", None))
        model_family == IF Truthy(model_name) THEN get_model_family(model_name)
                        ELSE Ok(None)
        usage == extract_cost_info(pricing_table, attrs, provider.v.s)
    IN  IF ~provider.ok THEN provider
        ELSE IF ~model_family.ok THEN model_family
        ELSE IF ~usage.ok THEN usage
        ELSE Ok([
            span_id |-> StrV(FormatHex(span.span_id, 16)),
            trace_id |-> StrV(FormatHex(span.trace_id, 32)),
            parent_span_id |-> IF span.parent # None
                               THEN StrV(FormatHex(span.parent.n, 16)) ELSE None,
            name |-> span.name,
            kind |-> span.kind,
            start_time |-> IntV(span.start_time),
            end_time |-> IntV(span.end_time),
            status_code |-> span.status_code,
            status_message |-> span.status_message,
            attributes |-> json_dumps(attrs),
            events |-> events_json(span.events),
            resource |-> json_dumps(span.resource),
            provider |-> provider.v,
            model_name |-> Bind(model_name),
            model_family |-> model_family.v,
            prompt_tokens |-> usage.v.prompt_tokens,
            completion_tokens |-> usage.v.completion_tokens,
            total_tokens |-> usage.v.total_tokens,
            reasoning_tokens |-> usage.v.reasoning_tokens,
            estimated_cost_usd |-> usage.v.estimated_cost_usd,
            ttft_ms |-> Bind(Get(attrs, "llm.ttft_ms", None)),
            tokens_per_second |-> Bind(Get(attrs, "llm.tokens_per_second", None)),
            generation_time_ms |-> Bind(Get(attrs, "llm.generation_time_ms", None)),
            temperature |-> Bind(Get(attrs, "gen_ai.request.temperature", None)),
            top_p |-> Bind(Get(attrs, "gen_ai.request.top_p", None)),
            top_k |-> Bind(Get(attrs, "gen_ai.request.top_k", None)),
            max_tokens |-> Bind(Get(attrs, "gen_ai.request.max_tokens", None)),
            context_window_size |-> Bind(Get(attrs, "gen_ai.model.context_window", None)),
            cpu_percent |-> Bind(Get(attrs, "system.cpu_percent", None)),
            memory_mb |-> Bind(Get(attrs, "system.memory_mb", None)),
            gpu_utilization |-> Bind(Get(attrs, "system.gpu_utilization", None)),
            gpu_memory_used_mb |-> Bind(Get(attrs, "system.gpu_memory_used_mb", None)),
            streaming_enabled |-> Bind(Get(attrs, "llm.streaming.enabled", BoolV(FALSE))),
            streaming_chunk_count |-> Bind(Get(attrs, "llm.streaming.chunk_count", None)),
            streaming_ttft_ms |-> Bind(Get(attrs, "llm.streaming.ttft_ms", None)),
            streaming_total_time_ms |-> Bind(Get(attrs, "llm.streaming.total_time_ms", None)),
            streaming_avg_inter_chunk_ms |->
                Bind(Get(attrs, "llm.streaming.avg_inter_chunk_ms", None)),
            streaming_per_token_ms |-> Bind(Get(attrs, "llm.streaming.per_token_ms", None))])

\* INSERT OR IGNORE: a row whose span_id is already present is dropped
InsertOrIgnore(table, row) ==
    IF \E r \in table : r.span_id = row.span_id THEN table ELSE table \cup {row}

\* INSERT OR REPLACE INTO spans of one row: span_id is the PRIMARY KEY, so
\* the row in conflict is deleted and the new row inserted whole
InsertOrReplace(table, row) ==
    {r \in table : r.span_id # row.span_id} \cup {row}

\* conn.executemany(INSERT OR REPLACE ..., data) for rows 1..n of data
RECURSIVE ExecuteMany(_, _, _)
ExecuteMany(table, data, n) ==
    IF n = 0 THEN table
    ELSE InsertOrReplace(ExecuteMany(table, data, n - 1), data[n])

\* a connection that commits whatever was written, also when the body raised
ConnExitAlwaysCommits(before, written, raised) == written

\* `with sqlite3.connect(db) as conn:` around a body that worked on
\* `written`: the connection commits when the body returned and rolls back
\* to `before` when it raised
ConnExit(before, written, raised) == IF raised THEN before ELSE written

\* the history kept for the claims: after a committed batch, span_id maps to
\* the last span of the batch that carries it, with the pricing table in
\* force during the call
Record(history, batch, pricing_table) ==
    LET idOf == [i \in 1..Len(batch) |-> StrV(FormatHex(batch[i].span_id, 16))]
        ids == {idOf[i] : i \in 1..Len(batch)}
        lastOf(id) == CHOOSE i \in 1..Len(batch) :
                         /\ idOf[i] = id
                         /\ \A j \in (i + 1)..Len(batch) : idOf[j] # id
    IN  [id \in (DOMAIN history) \cup ids |->
            IF id \in ids
            THEN [span |-> batch[lastOf(id)], pricing |-> pricing_table]
            ELSE history[id]]

(* Spans handed to export by the instrumentation layer *)

s_OpenAI == <<"O","p","e","n","A","I">>
s_gpt4 == <<"g","p","t","-","4">>
s_Llama3 == <<"L","l","a","m","a","3">>
s_abc == <<"a","b","c">>
s_hi == <<"h","i">>
s_chat == <<"l","l","m",".","c","h","a","t">>
s_timeout == <<"t","i","m","e","o","u","t">>
s_UNSET == <<"U","N","S","E","T">>
s_OK == <<"O","K">>
s_ERROR == <<"E","R","R","O","R">>
s_CLIENT == <<"C","L","I","E","N","T">>
s_INTERNAL == <<"I","N","T","E","R","N","A","L">>
s_ollama_url ==
    <<"h","t","t","p",":","/","/","L","o","c","a","l","h","o","s","t",":",
      "1","1","4","3","4","/","a","p","i">>
s_first_token == <<"f","i","r","s","t","_","t","o","k","e","n">>
s_Ollama == <<"O","l","l","a","m","a">>
s_hello == <<"h","e","l","l","o">>

ResourceAttrs == ("service.name" :> StrV(<<"a","p","p">>))

\* an LLM call span as exported when the call starts: explicit provider,
\* request model and prompt, no usage yet
AttrsStarted ==
    ("gen_ai.system" :> StrV(s_OpenAI)) @@ ("gen_ai.request.model" :> StrV(s_gpt4))
    @@ ("gen_ai.prompt" :> StrV(s_hi)) @@ ("llm.ttft_ms" :> FloatV(12500))
\* the same call when it completed: usage counts and streaming metrics
AttrsCompleted ==
    ("gen_ai.system" :> StrV(s_OpenAI)) @@ ("gen_ai.request.model" :> StrV(s_gpt4))
    @@ ("gen_ai.usage.prompt_tokens" :> IntV(1000))
    @@ ("gen_ai.usage.completion_tokens" :> IntV(500))
    @@ ("llm.streaming.enabled" :> BoolV(TRUE))
    @@ ("llm.streaming.chunk_count" :> IntV(3))
    @@ ("gen_ai.prompt" :> StrV(s_hi)) @@ ("gen_ai.completion" :> StrV(s_hello))
\* a call to a local server, known by its url and its response model
AttrsLocal ==
    ("url.full" :> StrV(s_ollama_url)) @@ ("gen_ai.response.model" :> StrV(s_Llama3))
    @@ ("gen_ai.usage.prompt_tokens" :> IntV(7))
\* a token count that is not an integer
AttrsBadTokens ==
    ("gen_ai.system" :> StrV(s_openai)) @@ ("gen_ai.usage.prompt_tokens" :> StrV(s_abc))
\* a model attribute that is not a string
AttrsBadModel == ("gen_ai.request.model" :> IntV(7))

SpanShapes ==
    << [attributes |-> AttrsStarted, name |-> StrV(s_chat), kind |-> StrV(s_CLIENT),
        trace_id |-> 1, parent |-> None, start_time |-> 5, end_time |-> 5,
        status_code |-> StrV(s_UNSET), status_message |-> None, events |-> <<>>],
       [attributes |-> AttrsCompleted, name |-> StrV(s_chat), kind |-> StrV(s_CLIENT),
        trace_id |-> 1, parent |-> None, start_time |-> 5, end_time |-> 9,
        status_code |-> StrV(s_OK), status_message |-> None,
        events |-> << [name |-> StrV(s_first_token), timestamp |-> 6,
                       attributes |-> EmptyMap] >>],
       [attributes |-> AttrsLocal, name |-> StrV(s_chat), kind |-> StrV(s_INTERNAL),
        trace_id |-> 2, parent |-> IntV(1), start_time |-> 7, end_time |-> 8,
        status_code |-> StrV(s_ERROR), status_message |-> StrV(s_timeout),
        events |-> <<>>],
       [attributes |-> AttrsBadTokens, name |-> StrV(s_chat), kind |-> StrV(s_CLIENT),
        trace_id |-> 1, parent |-> None, start_time |-> 5, end_time |-> 9,
        status_code |-> StrV(s_OK), status_message |-> None, events |-> <<>>],
       [attributes |-> AttrsBadModel, name |-> StrV(s_chat), kind |-> StrV(s_CLIENT),
        trace_id |-> 1, parent |-> None, start_time |-> 5, end_time |-> 9,
        status_code |-> StrV(s_OK), status_message |-> None, events |-> <<>>] >>

MkSpan(span_id, shape) ==
    [span_id |-> span_id, trace_id |-> shape.trace_id, parent |-> shape.parent,
     name |-> shape.name, kind |-> shape.kind,
     start_time |-> shape.start_time, end_time |-> shape.end_time,
     status_code |-> shape.status_code, status_message |-> shape.status_message,
     attributes |-> shape.attributes, events |-> shape.events,
     resource |-> ResourceAttrs]

\* the span ids in use (64-bit integers in the program)
SpanIds == {1, 2}

SpanInputs == {MkSpan(id, SpanShapes[k]) : id \in SpanIds, k \in 1..Len(SpanShapes)}

s_Google == <<"G","o","o","g","l","e">>

\* a call to a local server that names its provider and its request model
\* and reports both token counts
AttrsLocalPriced ==
    ("gen_ai.system" :> StrV(s_Ollama)) @@ ("gen_ai.request.model" :> StrV(s_Llama3))
    @@ ("gen_ai.usage.prompt_tokens" :> IntV(3))
    @@ ("gen_ai.usage.completion_tokens" :> IntV(500))
\* the same model served by a paid provider that has no built-in pricing
AttrsGoogle ==
    ("gen_ai.system" :> StrV(s_Google)) @@ ("gen_ai.request.model" :> StrV(s_Llama3))
    @@ ("gen_ai.usage.prompt_tokens" :> IntV(3))
    @@ ("gen_ai.usage.completion_tokens" :> IntV(500))

PricedShapes ==
    << SpanShapes[2],
       [SpanShapes[3] EXCEPT !.attributes = AttrsLocalPriced],
       [SpanShapes[3] EXCEPT !.attributes = AttrsGoogle] >>

\* the spans exported while custom models are being registered
PricedSpanInputs ==
    {MkSpan(id, PricedShapes[k]) : id \in SpanIds, k \in 1..Len(PricedShapes)}

\* the names and the pricing arguments given to register_custom_model:
\* None, or 0.001 USD per 1K input tokens and 0.002 USD per 1K output tokens
CustomModels == {s_Llama3, s_gpt4}
CustomPricings ==
    {NoPricing, [key |-> <<>>, input_cost_per_1k |-> 1000, output_cost_per_1k |-> 2000]}

\* the values ModelRegistry.PRICING takes
PricingTables ==
    LET registered(S) ==
            S \cup {register_custom_model(t, n, p) :
                       t \in S, n \in CustomModels, p \in CustomPricings}
    IN  registered(registered({BUILTIN_PRICING}))

\* BuildRow tabulated over the pricing tables and the spans handed in
BuiltRows ==
    [pt \in PricingTables |->
        [sp \in SpanInputs \cup PricedSpanInputs |-> BuildRow(pt, sp)]]

\* a call of registry.register_custom_model(name, embedding_dim, token_limit,
\* pricing) on any instance: the three tables are attributes of the class
RegisterCustomModel(name, embedding_dim, token_limit, pricing) ==
    /\ EMBEDDING_DIMS' = SetIfGiven(EMBEDDING_DIMS, name, embedding_dim)
    /\ TOKEN_LIMITS' = SetIfGiven(TOKEN_LIMITS, name, token_limit)
    /\ PRICING' = register_custom_model(PRICING, name, pricing)
    /\ ret' = [op |-> "register_custom_model", name |-> name,
               embedding_dim |-> embedding_dim, token_limit |-> token_limit,
               pricing |-> pricing,
               before |-> [EMBEDDING_DIMS |-> EMBEDDING_DIMS,
                           TOKEN_LIMITS |-> TOKEN_LIMITS, PRICING |-> PRICING]]
    /\ UNCHANGED <<histVars, spanVars, vecVars, schema, sessVars, traceVars, thrVars>>

\* a call of detector.extract_cost_info(attributes, provider)
ExtractCostInfo(attributes, provider) ==
    /\ ret' = [op |-> "extract_cost_info", attributes |-> attributes,
               provider |-> provider, pricing |-> PRICING,
               out |-> extract_cost_info(PRICING, attributes, provider)]
    /\ UNCHANGED <<spanVars, vecVars, PRICING, schema, procVars>>

\* export(batch).  failAt = 0: the store accepts every statement;
\* failAt = k in 1..Len(batch): the store rejects the insert of row k
\* (rows 1..k-1 were written inside the transaction);
\* failAt = Len(batch) + 1: the commit on leaving the with block fails.
\* Every exception is caught by `except Exception` and FAILURE returned.
\* conn tells what became of the connection of the call: "none" when none
\* was opened, "closed" when close() was called on it, "open" when the call
\* ended without closing it (`with sqlite3.connect(...) as conn` commits or
\* rolls back on exit and leaves the connection open).
Export(batch, failAt) ==
    LET built == [i \in 1..Len(batch) |-> BuiltRows[PRICING][batch[i]]]
        buildRaised == \E i \in 1..Len(batch) : ~built[i].ok
        data == [i \in 1..Len(batch) |-> built[i].v]
        \* the INSERT cannot be prepared when the table, or one of the
        \* columns it names, is missing
        prepared == schema.table /\ INSERT_COLUMNS \subseteq DOMAIN schema.columns
        nWritten == IF ~prepared THEN 0
                    ELSE IF failAt = 0 THEN Len(batch) ELSE failAt - 1
        writeRaised == failAt # 0 \/ ~prepared
    IN  /\ IF buildRaised
           THEN /\ spans' = spans
                /\ latest' = latest
                /\ ret' = [op |-> "export", n |-> Len(batch), failAt |-> 0,
                           exc |-> built[CHOOSE i \in 1..Len(batch) :
                                           /\ ~built[i].ok
                                           /\ \A j \in 1..(i - 1) : built[j].ok].exc,
                           raised |-> FALSE, result |-> "FAILURE", conn |-> "none"]
           ELSE /\ spans' = ConnExit(spans,
                                     ExecuteMany(spans, data, IF nWritten > Len(batch)
                                                              THEN Len(batch) ELSE nWritten),
                                     writeRaised)
                /\ latest' = IF writeRaised THEN latest ELSE Record(latest, batch, PRICING)
                /\ ret' = [op |-> "export", n |-> Len(batch), failAt |-> failAt,
                           exc |-> IF writeRaised THEN "OperationalError" ELSE "none",
                           raised |-> FALSE,
                           result |-> IF writeRaised THEN "FAILURE" ELSE "SUCCESS",
                           conn |-> "open"]
        /\ UNCHANGED <<vecVars, PRICING, schema, procVars>>

-----------------------------------------------------------------------------
RECURSIVE SeqsUpTo(_, _)
\* the sequences over S of length at most n
SeqsUpTo(S, n) ==
    IF n = 0 THEN {<<>>}
    ELSE LET shorter == SeqsUpTo(S, n - 1)
         IN  shorter \cup {Append(q, x) : q \in {r \in shorter : Len(r) = n - 1}, x \in S}

\* the spans batches are made of: span 1 in every shape, span 2 as a started
\* call and as a local call
BatchInputs ==
    {sp \in SpanInputs :
        sp.span_id = 1 \/ sp = MkSpan(2, SpanShapes[1]) \/ sp = MkSpan(2, SpanShapes[3])}

Batches == SeqsUpTo(BatchInputs, MaxBatch)

-----------------------------------------------------------------------------
(* Vector store (agentscope/utils.py, agentscope/rag_logger.py) *)

RECURSIVE DecOf(_)
\* str(n) for a natural number
DecOf(n) ==
    IF n < 10 THEN <<DecDigits[n + 1]>>
    ELSE Append(DecOf(n \div 10), DecDigits[(n % 10) + 1])

s_vectors_ == <<"v","e","c","t","o","r","s","_">>

\* utils.get_vector_table_name: f"vectors_{dimension}"
get_vector_table_name(dimension) == StrV(s_vectors_ \o DecOf(dimension))

\* utils.ensure_vector_table when its statement succeeds:
\* CREATE VIRTUAL TABLE IF NOT EXISTS vectors_<dimension>
ensure_vector_table(tables, dimension) ==
    IF get_vector_table_name(dimension) \in DOMAIN tables THEN tables
    ELSE tables @@ (get_vector_table_name(dimension) :> <<>>)

s_model == <<"m","i","n","i","l","m">>
s_document == <<"d","o","c","u","m","e","n","t">>
s_doc == <<"d","o","c">>

\* the points at which a log_embedding call can be made to fail:
\*   create   - ensure_vector_table raises something other than "already exists"
\*   vector   - the INSERT into the vector table raises
\*   metadata - json.dumps(meta_dict) or the INSERT into vector_metadata raises
\*   commit   - conn.commit() raises
LogFailures == {"none", "create", "vector", "metadata", "commit"}

\* rag_logger.log_embedding on the store db.  ctx is the span context of the current span
\* (span_id and trace_id 0 when there is none); `available` says whether
\* sqlite_vec can be imported by the calling process.  serialize_vector
\* imports sqlite_vec before the connection is opened, so without it the call
\* raises ImportError there.  The CREATE VIRTUAL TABLE statement runs in
\* autocommit mode; the two INSERTs open and share one transaction.
log_embedding(db, text, vector, model_name, metadata, vector_type, ctx, available, fail) ==
    LET span_id == IF ctx.span_id # 0 THEN StrV(FormatHex(ctx.span_id, 16))
                   ELSE StrV(s_no_span)
        trace_id == IF ctx.trace_id # 0 THEN StrV(FormatHex(ctx.trace_id, 32))
                    ELSE StrV(s_no_trace)
        dimension == Len(vector)
        tables1 == ensure_vector_table(db.vector_tables, dimension)
        table_name == get_vector_table_name(dimension)
        row_id == Len(tables1[table_name]) + 1
        tables2 == [tables1 EXCEPT ![table_name] = Append(@, vector)]
        meta_dict == ("model" :> model_name) @@ ("dimension" :> IntV(dimension))
                     @@ ("type" :> vector_type) @@ metadata
        vm_row == [id |-> db.vm_seq + 1, vector_rowid |-> row_id,
                   table_name |-> table_name, span_id |-> span_id,
                   trace_id |-> trace_id, content |-> text,
                   metadata |-> json_dumps(meta_dict)]
        vectorWritten == fail # "vector"
        metadataWritten == fail \notin {"vector", "metadata"}
        raised == fail # "none"
    IN  IF ~available
        THEN [db |-> db, fail |-> "import", out |-> Raise("ImportError"),
              conn |-> "none"]
        ELSE IF fail = "create"
        THEN [db |-> db, fail |-> fail, out |-> Raise("OperationalError"),
              conn |-> "open"]
        ELSE [db |->
                [vector_tables |->
                    ConnExit(tables1, IF vectorWritten THEN tables2 ELSE tables1, raised),
                 vector_metadata |->
                    ConnExit(db.vector_metadata,
                             IF metadataWritten THEN db.vector_metadata \cup {vm_row}
                             ELSE db.vector_metadata, raised),
                 vm_seq |-> ConnExit(db.vm_seq,
                                     IF metadataWritten THEN db.vm_seq + 1 ELSE db.vm_seq,
                                     raised),
                 logged |-> IF raised THEN db.logged
                            ELSE db.logged @@ ((db.vm_seq + 1) :>
                                   [vector |-> vector, span_id |-> span_id,
                                    text |-> text, metadata |-> meta_dict])],
              fail |-> fail,
              out |-> IF raised THEN Raise("OperationalError") ELSE Ok(None),
              conn |-> "open"]

\* the vector store as the calls of rag_logger see it
VectorDb ==
    [vector_tables |-> vector_tables, vector_metadata |-> vector_metadata,
     vm_seq |-> vm_seq, logged |-> logged]

SetVectorDb(db) ==
    /\ vector_tables' = db.vector_tables
    /\ vector_metadata' = db.vector_metadata
    /\ vm_seq' = db.vm_seq
    /\ logged' = db.logged

LogEmbedding(text, vector, model_name, metadata, vector_type, ctx, available, fail) ==
    LET r == log_embedding(VectorDb, text, vector, model_name, metadata, vector_type,
                           ctx, available, fail)
    IN  /\ SetVectorDb(r.db)
        /\ ret' = [op |-> "log_embedding", fail |-> r.fail, out |-> r.out,
                   conn |-> r.conn]
        /\ UNCHANGED <<spanVars, PRICING, schema, procVars>>

s_query == <<"q","u","e","r","y">>
s_retrieved == <<"r","e","t","r","i","e","v","e","d">>

\* doc.get(key, default) on a retrieved document
DocGet(doc, key, default) == IF key \in DOMAIN doc THEN doc[key] ELSE default

\* the loop of log_retrieval from pair i of zip(retrieved_docs, scores) on;
\* zip stops at the shorter of the two lists, a document without 'vector' is
\* passed over, and an exception of log_embedding leaves the loop.  Call
\* number failAt of log_embedding (the query being call 1, document i call
\* i + 1) meets failure `fail`.
RECURSIVE LogRetrievedDocs(_, _, _, _, _, _, _, _, _)
LogRetrievedDocs(db, retrieved_docs, scores, i, model_name, ctx, available, failAt, fail) ==
    IF i > Len(retrieved_docs) \/ i > Len(scores)
    THEN [db |-> db, out |-> Ok(None)]
    ELSE LET doc == retrieved_docs[i]
             doc_text == DocGet(doc, "text", DocGet(doc, "content", StrV(<<>>)))
             doc_meta == ("retrieval_score" :> scores[i])
                         @@ ("retrieval_rank" :> IntV(i))
                         @@ DocGet(doc, "metadata", EmptyMap)
         IN  IF "vector" \in DOMAIN doc
             THEN LET r == log_embedding(db, doc_text, doc.vector, model_name, doc_meta,
                                         StrV(s_retrieved), ctx, available,
                                         IF failAt = i + 1 THEN fail ELSE "none")
                  IN  IF r.out.ok
                      THEN LogRetrievedDocs(r.db, retrieved_docs, scores, i + 1,
                                            model_name, ctx, available, failAt, fail)
                      ELSE [db |-> r.db, out |-> r.out]
             ELSE LogRetrievedDocs(db, retrieved_docs, scores, i + 1, model_name, ctx,
                                   available, failAt, fail)

\* rag_logger.log_retrieval on the store db
log_retrieval(db, query, query_vector, retrieved_docs, scores, model_name, ctx, available, failAt, fail) ==
    LET r == log_embedding(db, query, query_vector, model_name,
                           "retrieved_count" :> IntV(Len(retrieved_docs)),
                           StrV(s_query), ctx, available,
                           IF failAt = 1 THEN fail ELSE "none")
    IN  IF r.out.ok
        THEN LogRetrievedDocs(r.db, retrieved_docs, scores, 1, model_name, ctx,
                              available, failAt, fail)
        ELSE [db |-> r.db, out |-> r.out]

LogRetrieval(query, query_vector, retrieved_docs, scores, model_name, ctx, available, failAt, fail) ==
    LET r == log_retrieval(VectorDb, query, query_vector, retrieved_docs, scores,
                           model_name, ctx, available, failAt, fail)
    IN  /\ SetVectorDb(r.db)
        /\ ret' = [op |-> "log_retrieval", retrieved_docs |-> retrieved_docs,
                   scores |-> scores, out |-> r.out, before |-> vm_seq]
        /\ UNCHANGED <<spanVars, PRICING, schema, procVars>>

RECURSIVE Dot(_, _)
Dot(a, b) == IF Len(a) = 0 THEN 0 ELSE a[1] * b[1] + Dot(Tail(a), Tail(b))

\* the Euclidean norm of a vector, rounded down to an integer; the vectors
\* that are compared have integer norms
Norm(v) ==
    LET n == Dot(v, v)
    IN  CHOOSE r \in 0..n : r * r <= n /\ n < (r + 1) * (r + 1)

\* vec_distance_cosine(v, q) = 1 - dot / (|v| * |q|), a float in thousandths
Distance(v, q) == FloatV(1000 - (1000 * Dot(v, q)) \div (Norm(v) * Norm(q)))

\* d1 <= d2 for two distances
DistLeq(d1, d2) == d1.n <= d2.n

\* the join condition with the table name left out
JoinOnRowidOnly(rowid, table_name, vm) == vm.vector_rowid = rowid

\* JOIN vector_metadata vm ON v.rowid = vm.vector_rowid AND vm.table_name = ?
JoinOn(rowid, table_name, vm) ==
    vm.vector_rowid = rowid /\ vm.table_name = table_name

\* a query that never filters
WhereNothing(vm, exclude_span_id) == TRUE

\* `if exclude_span_id:` adds WHERE vm.span_id != ?; None and '' add nothing
Where(vm, exclude_span_id) ==
    Truthy(exclude_span_id) => vm.span_id # exclude_span_id

\* the orderings of a finite set of joined rows that ignore the distance
AnyOrder(rows) ==
    {o \in [1..Cardinality(rows) -> rows] :
        \A i, j \in 1..Cardinality(rows) : i # j => o[i] # o[j]}

\* the orderings of a finite set of joined rows by ascending distance; rows
\* at equal distance may come in any order
SortedByDistance(rows) ==
    {o \in [1..Cardinality(rows) -> rows] :
        /\ \A i, j \in 1..Cardinality(rows) : i # j => o[i] # o[j]
        /\ \A i, j \in 1..Cardinality(rows) :
              i < j => DistLeq(o[i].distance, o[j].distance)}

Min(a, b) == IF a <= b THEN a ELSE b

\* rag_logger.get_similar_vectors
GetSimilarVectors(query_vector, limit, exclude_span_id, available) ==
    LET dimension == Len(query_vector)
        table_name == get_vector_table_name(dimension)
        joined == {x \in (1..Len(vector_tables[table_name])) \X vector_metadata :
                      /\ JoinOn(x[1], table_name, x[2])
                      /\ Where(x[2], exclude_span_id)}
        rows == {[rowid |-> x[1], vm |-> x[2],
                  distance |-> Distance(vector_tables[table_name][x[1]], query_vector)] :
                    x \in joined}
        call == [op |-> "get_similar_vectors", query_vector |-> query_vector,
                 limit |-> limit, exclude_span_id |-> exclude_span_id,
                 available |-> available,
                 conn |-> IF available THEN "open" ELSE "none"]
    IN  /\ IF ~available
           THEN ret' = call @@ [table |-> table_name \in DOMAIN vector_tables,
                                out |-> Raise("ImportError")]
           ELSE IF table_name \notin DOMAIN vector_tables
           THEN ret' = call @@ [table |-> FALSE, out |-> Raise("OperationalError")]
           ELSE \E o \in SortedByDistance(rows) :
                   ret' = call @@
                     [table |-> TRUE,
                      out |-> Ok([i \in 1..Min(limit, Len(o)) |->
                                [id |-> o[i].vm.id,
                                 vector_rowid |-> o[i].vm.vector_rowid,
                                 table_name |-> o[i].vm.table_name,
                                 span_id |-> o[i].vm.span_id,
                                 trace_id |-> o[i].vm.trace_id,
                                 content |-> o[i].vm.content,
                                 metadata |-> json_loads(o[i].vm.metadata),
                                 distance |-> o[i].distance,
                                 similarity |-> FloatV(1000 - o[i].distance.n)]])]
        /\ UNCHANGED <<spanVars, vecVars, PRICING, schema, procVars>>

\* cli.clear once the database file exists.  `confirmed` is --force or the
\* answer to the prompt.  `dropped` are the vector tables whose DROP TABLE
\* succeeded: each DROP sits in its own try/except/pass, and the connection
\* opened by clear never loads sqlite_vec, without which SQLite refuses to
\* drop a vec0 table ("no such module: vec0").  `fail` is a failure of any
\* statement outside those try blocks: it is reported and nothing is committed.
Clear(confirmed, dropped, fail) ==
    IF ~confirmed \/ fail
    THEN /\ ret' = [op |-> "clear", completed |-> FALSE, dropped |-> {},
                    conn |-> IF confirmed THEN "open" ELSE "none"]
         /\ UNCHANGED <<spanVars, vecVars, PRICING, schema, procVars>>
    ELSE /\ spans' = {}
         /\ latest' = [k \in {} |-> <<>>]
         /\ vector_metadata' = {}
         /\ vector_tables' = [t \in (DOMAIN vector_tables) \ dropped |-> vector_tables[t]]
         /\ ret' = [op |-> "clear", completed |-> TRUE, dropped |-> dropped,
                    conn |-> "closed"]
         /\ UNCHANGED <<vm_seq, logged, PRICING, schema, procVars>>

\* the vectors logged and queried: lengths 1 and 2 are logged, length 3 is
\* only ever queried
Vectors == {<<1>>, <<1, 0>>, <<3, 4>>}
QueryVectors == {<<1>>, <<1, 0>>, <<1, 1, 1>>}
\* span contexts active during log_embedding: none, or span 1 of trace 1
Contexts == {[span_id |-> 0, trace_id |-> 0], [span_id |-> 1, trace_id |-> 1]}
\* values passed as exclude_span_id: None, the empty string, the no-span
\* sentinel, a span id
Excludes == {None, StrV(<<>>), StrV(s_no_span), StrV(FormatHex(1, 16))}

\* log_embedding with sqlite_vec installed, on any vector, in any context and
\* with any failure of the store, or without sqlite_vec
LogStep ==
    /\ vm_seq < MaxVectors
    /\ \/ \E vector \in Vectors, ctx \in Contexts, fail \in LogFailures :
             LogEmbedding(StrV(s_doc), vector, StrV(s_model), EmptyMap,
                          StrV(s_document), ctx, TRUE, fail)
       \/ \E vector \in Vectors :
             LogEmbedding(StrV(s_doc), vector, StrV(s_model), EmptyMap,
                          StrV(s_document), [span_id |-> 0, trace_id |-> 0], FALSE, "none")

\* get_similar_vectors with sqlite_vec installed, for any query, limit and
\* exclusion, or without sqlite_vec
QueryStep ==
    \/ \E q \in QueryVectors, limit \in 1..MaxLimit, x \in Excludes :
          GetSimilarVectors(q, limit, x, TRUE)
    \/ \E q \in QueryVectors : GetSimilarVectors(q, 1, None, FALSE)

ClearStep ==
    \E confirmed \in BOOLEAN, dropped \in SUBSET DOMAIN vector_tables,
       fail \in BOOLEAN :
       Clear(confirmed, dropped, fail)

-----------------------------------------------------------------------------
(* The read API (api.py) *)

s_Unknown == <<"U","n","k","n","o","w","n">>

\* the rows of trace t with the least start_time: the candidates of
\* `SELECT name ... ORDER BY start_time ASC LIMIT 1`
Earliest(rows, t) ==
    {r \in rows : /\ r.trace_id = t
                  /\ \A q \in rows : q.trace_id = t => r.start_time.n <= q.start_time.n}

\* one group of GROUP BY t.trace_id as a TraceSummary, `root` being the row
\* the subquery picked
Summary(rows, t, root) ==
    [trace_id |-> t,
     root_span_name |-> IF Truthy(root.name) THEN root.name ELSE StrV(s_Unknown),
     start_time |-> root.start_time.n,
     span_count |-> Cardinality({r \in rows : r.trace_id = t})]

\* ORDER BY start_time DESC, start_time being the alias of min(t.start_time):
\* the sequences that hold each summary once, latest start first; summaries
\* with the same start come in any order
OrderByStartTimeDesc(summaries) ==
    {o \in [1..Cardinality(summaries) -> summaries] :
        /\ \A i, j \in 1..Cardinality(summaries) : i # j => o[i] # o[j]
        /\ \A i, j \in 1..Cardinality(summaries) :
              i < j => o[i].start_time >= o[j].start_time}

\* GET /traces.  `fail`: the store rejects the query (the database is
\* locked, or holds no table spans); the exception leaves list_traces before
\* conn.close() is reached.
ListTraces(fail) ==
    /\ IF fail \/ ~schema.table
       THEN ret' = [op |-> "list_traces", out |-> Raise("OperationalError"),
                    conn |-> "open"]
       ELSE LET ids == {r.trace_id : r \in spans}
            IN  \E root \in [ids -> spans] :
                   /\ \A t \in ids : root[t] \in Earliest(spans, t)
                   /\ \E o \in OrderByStartTimeDesc(
                                  {Summary(spans, t, root[t]) : t \in ids}) :
                         ret' = [op |-> "list_traces", out |-> Ok(o),
                                 conn |-> "closed"]
    /\ UNCHANGED <<spanVars, vecVars, PRICING, schema, procVars>>

\* POST /api/fork/{span_id}.  `fail`: the store rejects the SELECT (the
\* exception leaves fork_span before conn.close()); `available`:
\* llm_client.is_available(provider); `response`: what llm_client.call
\* returns or raises.
ForkSpan(span_id, modified_prompt, fail, available, response) ==
    LET found == {r \in spans : r.span_id = span_id}
        span_row == CHOOSE r \in found : TRUE
        attributes == IF span_row.attributes # json_dumps(EmptyMap)
                      THEN json_loads(span_row.attributes) ELSE EmptyMap
        provider == span_row.provider
        model == span_row.model_name
        call == [op |-> "fork_span", span_id |-> span_id, before |-> spans]
    IN  /\ ret' =
             IF fail \/ ~schema.table
             THEN call @@ [out |-> Raise("OperationalError"), conn |-> "open"]
             ELSE IF found = {}
             THEN call @@ [out |-> Raise("HTTPException 404"), conn |-> "closed"]
             ELSE IF ~Truthy(provider) \/ ~Truthy(model)
             THEN call @@ [out |-> Raise("HTTPException 400"), conn |-> "closed"]
             ELSE IF ~available
             THEN call @@ [out |-> Raise("HTTPException 503"), conn |-> "closed"]
             ELSE IF ~response.ok
             THEN call @@ [out |-> Raise("HTTPException 500"), conn |-> "closed"]
             ELSE call @@
                  [out |-> Ok(None), conn |-> "closed",
                   original |->
                      [span_id |-> span_id, provider |-> provider, model |-> model,
                       prompt |-> Get(attributes, "gen_ai.prompt", StrV(<<>>)),
                       completion |-> Get(attributes, "gen_ai.completion", StrV(<<>>)),
                       prompt_tokens |-> span_row.prompt_tokens,
                       completion_tokens |-> span_row.completion_tokens],
                   forked |-> [prompt |-> modified_prompt, completion |-> response.v]]
        /\ UNCHANGED <<spanVars, vecVars, PRICING, schema, procVars>>

-----------------------------------------------------------------------------
(* Schema migrations (migrations/add_performance_metrics.py,               *)
(* migrations/add_streaming_support.py)                                    *)

NoError == [class |-> "none", message |-> "none"]
DuplicateColumn == [class |-> "OperationalError", message |-> "duplicate column name"]
NoSuchTable == [class |-> "OperationalError", message |-> "no such table"]

\* what the store can answer to a statement whatever the statement is: the
\* database is locked by another connection (OperationalError), or the file
\* is not a database or is malformed (DatabaseError, the base class, which
\* `except sqlite3.OperationalError` does not catch)
Faults ==
    {[class |-> "OperationalError", message |-> "database is locked"],
     [class |-> "DatabaseError", message |-> "file is not a database"]}

\* conn.execute("ALTER TABLE spans ADD COLUMN <name> <type>"): the exception
\* raised, NoError when the column is added
AlterAddColumn(sch, col, fault) ==
    IF fault # NoError THEN fault
    ELSE IF ~sch.table THEN NoSuchTable
    ELSE IF col.name \in DOMAIN sch.columns THEN DuplicateColumn
    ELSE NoError

\* a test for "already exists" that never recognises the error
NeverDuplicate(e) == FALSE

\* `"duplicate column name" in str(e).lower()`
IsDuplicateColumn(e) == e.message = "duplicate column name"

\* a destructive migration: the table is rebuilt and the values of the
\* existing columns are lost
WithColumnRebuilt(row, col) ==
    [c \in (DOMAIN row) \cup {col.name} |->
        IF c = "span_id" THEN row[c] ELSE IF c = col.name THEN col.default ELSE None]

\* the row of an existing record once column col has been added: the new
\* column reads as its default
WithColumn(row, col) ==
    [c \in (DOMAIN row) \cup {col.name} |->
        IF c = col.name THEN col.default ELSE row[c]]

\* the loop of migrate over the columns from number i on.  Each ALTER TABLE
\* is its own transaction, so a column stays added whatever happens after it.
\* st: the schema and rows so far, the counters, the columns for which an
\* error was printed, the number of statements executed and the exception
\* that left the loop, if any.
RECURSIVE MigrateLoop(_, _, _, _, _)
MigrateLoop(st, cols, i, faultAt, fault) ==
    IF i > Len(cols) THEN st
    ELSE LET e == AlterAddColumn(st.schema, cols[i],
                                 IF i = faultAt THEN fault ELSE NoError)
             tried == [st EXCEPT !.attempted = @ + 1]
         IN  IF e = NoError
             THEN MigrateLoop(
                    [tried EXCEPT
                       !.schema.columns = @ @@ (cols[i].name :> cols[i].type),
                       !.rows = {WithColumn(r, cols[i]) : r \in @},
                       !.added_count = @ + 1],
                    cols, i + 1, faultAt, fault)
             ELSE IF e.class = "OperationalError"
             THEN IF IsDuplicateColumn(e)
                  THEN MigrateLoop([tried EXCEPT !.skipped_count = @ + 1],
                                   cols, i + 1, faultAt, fault)
                  ELSE MigrateLoop([tried EXCEPT !.errors = Append(@, cols[i].name)],
                                   cols, i + 1, faultAt, fault)
             ELSE [tried EXCEPT !.raised = e.class]

\* migrate(db_path) of either migration, `cols` being its list of columns.
\* Without a database file it returns at once.  faultAt = 0: the store
\* answers every statement on its merits; faultAt = k: statement k meets
\* `fault`.  conn.close() is reached only when no exception leaves the loop.
Migrate(list, cols, faultAt, fault) ==
    LET st == MigrateLoop([schema |-> schema, rows |-> spans, added_count |-> 0,
                           skipped_count |-> 0, errors |-> <<>>, attempted |-> 0,
                           raised |-> "none"],
                          cols, 1, faultAt, fault)
        call == [op |-> "migrate", list |-> list, faultAt |-> faultAt,
                 fault |-> fault.class,
                 applied |-> schema.table
                             /\ \A i \in 1..Len(cols) :
                                   cols[i].name \in DOMAIN schema.columns]
    IN  IF ~schema.file
        THEN /\ ret' = call @@ [ran |-> FALSE, added_count |-> 0, skipped_count |-> 0,
                                errors |-> <<>>, attempted |-> 0, raised |-> "none",
                                conn |-> "none"]
             /\ upgrade' = [upgrade EXCEPT !.ops = @ \cup {list}]
             /\ UNCHANGED <<spanVars, vecVars, PRICING, schema, sessVars, traceVars,
                            regVars, thrVars>>
        ELSE /\ schema' = st.schema
             /\ spans' = st.rows
             /\ upgrade' = [upgrade EXCEPT !.ops = @ \cup {list}]
             /\ ret' = call @@ [ran |-> TRUE, added_count |-> st.added_count,
                                skipped_count |-> st.skipped_count,
                                errors |-> st.errors, attempted |-> st.attempted,
                                raised |-> st.raised,
                                conn |-> IF st.raised = "none" THEN "closed"
                                         ELSE "open"]
             /\ UNCHANGED <<latest, vecVars, PRICING, sessVars, traceVars, regVars,
                            thrVars>>

\* the columns the indexes of _init_schema are created on
INDEXED_COLUMNS == {"trace_id", "start_time", "provider", "model_name"}

\* SQLiteSpanExporter._init_schema, run by the constructor of the exporter:
\* sqlite3.connect creates the file when there is none, CREATE TABLE IF NOT
\* EXISTS spans creates the table with the current columns only when there is
\* no table, and leaves an existing table as it is; CREATE INDEX IF NOT
\* EXISTS raises when the table lacks the indexed column.
_init_schema ==
    LET created == IF schema.table THEN [schema EXCEPT !.file = TRUE]
                   ELSE CurrentSchema
        out == IF INDEXED_COLUMNS \subseteq DOMAIN created.columns THEN Ok(None)
               ELSE Raise("OperationalError")
    IN  /\ schema' = created
        /\ upgrade' = [upgrade EXCEPT !.ops = @ \cup {"bootstrap"}]
        /\ ret' = [op |-> "_init_schema", out |-> out, before |-> schema]
        /\ UNCHANGED <<spanVars, vecVars, PRICING, sessVars, traceVars, regVars,
                       thrVars>>

MigratePerformance(faultAt, fault) ==
    Migrate("performance", performance_columns, faultAt, fault)

MigrateStreaming(faultAt, fault) ==
    Migrate("streaming", streaming_columns, faultAt, fault)

-----------------------------------------------------------------------------
(* Specifications *)

-----------------------------------------------------------------------------
(* The session manager (agentscope/core/session.py, agentscope/__init__.py) *)

MaxSessions == 2
MaxObjects == 3

Modes == {"terminal", "web", "headless"}

\* Session.__init__: no component yet, not active
Session(mode) ==
    [mode |-> mode, tracer_provider |-> 0, exporter |-> 0, terminal_ui |-> 0,
     web_server |-> 0, _active |-> FALSE]

\* the heap the session code works on
Heap ==
    [sessions |-> sessions, objects |-> objects, _instance |-> _instance,
     _session |-> _session, _TRACER_PROVIDER |-> _TRACER_PROVIDER]

SetHeap(h) ==
    /\ sessions' = h.sessions
    /\ objects' = h.objects
    /\ _instance' = h._instance
    /\ _session' = h._session
    /\ _TRACER_PROVIDER' = h._TRACER_PROVIDER

\* a component is constructed and stored in field `field` of session `self`;
\* `live`: it has been started or created and not yet stopped or shut down
NewComponent(h, self, field, kind) ==
    [h EXCEPT !.objects = Append(@, [kind |-> kind, owner |-> self, live |-> TRUE]),
              !.sessions[self][field] = Len(h.objects) + 1]

\* TerminalUI.stop, SQLiteSpanExporter.shutdown, TracerProvider.shutdown on
\* the object a field holds, skipped when the field is None
ShutDown(h, o) ==
    IF o = 0 THEN h ELSE [h EXCEPT !.objects[o].live = FALSE]

\* trace.set_tracer_provider: only the first provider set is kept
set_tracer_provider(h, provider) ==
    IF h._TRACER_PROVIDER = 0 THEN [h EXCEPT !._TRACER_PROVIDER = provider] ELSE h

\* Session.start.  `fail`: SQLiteSpanExporter(db_path) raises from
\* _init_schema (the database cannot be opened or written).  In terminal
\* mode the call always ends at exporter.set_callback, a method
\* SQLiteSpanExporter does not have.
start(h, self, fail) ==
    IF h.sessions[self]._active
    THEN [h |-> h, out |-> Ok(None)]
    ELSE LET h1 == NewComponent(h, self, "tracer_provider", "TracerProvider")
         IN  IF fail
             THEN [h |-> h1, out |-> Raise("OperationalError")]
             ELSE LET h2 == NewComponent(h1, self, "exporter", "SQLiteSpanExporter")
                      h3 == set_tracer_provider(h2, h2.sessions[self].tracer_provider)
                  IN  CASE h.sessions[self].mode = "terminal" ->
                             [h |-> NewComponent(h3, self, "terminal_ui", "TerminalUI"),
                              out |-> Raise("AttributeError")]
                        [] h.sessions[self].mode = "web" ->
                             [h |-> [NewComponent(h3, self, "web_server", "Thread")
                                        EXCEPT !.sessions[self]._active = TRUE],
                              out |-> Ok(None)]
                        [] OTHER ->
                             [h |-> [h3 EXCEPT !.sessions[self]._active = TRUE],
                              out |-> Ok(None)]

\* Session.stop: the web server thread is left running
stop(h, self) ==
    IF ~h.sessions[self]._active
    THEN h
    ELSE LET h1 == ShutDown(h, h.sessions[self].terminal_ui)
             h2 == ShutDown(h1, h.sessions[self].exporter)
             h3 == ShutDown(h2, h.sessions[self].tracer_provider)
         IN  [h3 EXCEPT !.sessions[self]._active = FALSE]

\* Session.get_instance
get_instance(h) == h._instance

\* Session.set_instance
set_instance(h, session) ==
    LET h1 == IF h._instance # 0 THEN stop(h, h._instance) ELSE h
    IN  [h1 EXCEPT !._instance = session]

\* session = Session(mode=mode)
NewSession(mode) ==
    /\ Len(sessions) < MaxSessions
    /\ SetHeap([Heap EXCEPT !.sessions = Append(@, Session(mode))])
    /\ ret' = [op |-> "Session", session |-> Len(sessions) + 1, out |-> Ok(None)]
    /\ UNCHANGED <<histVars, spanVars, vecVars, PRICING, schema, traceVars, regVars, thrVars>>

SessionStart(self, fail) ==
    /\ Len(objects) < MaxObjects
    /\ LET r == start(Heap, self, fail)
       IN  /\ SetHeap(r.h)
           /\ ret' = [op |-> "start", session |-> self, out |-> r.out,
                      before |-> Heap]
    /\ UNCHANGED <<histVars, spanVars, vecVars, PRICING, schema, traceVars, regVars, thrVars>>

SessionStop(self) ==
    /\ SetHeap(stop(Heap, self))
    /\ ret' = [op |-> "stop", session |-> self, out |-> Ok(None), before |-> Heap]
    /\ UNCHANGED <<histVars, spanVars, vecVars, PRICING, schema, traceVars, regVars, thrVars>>

SetInstance(session) ==
    /\ SetHeap(set_instance(Heap, session))
    /\ ret' = [op |-> "set_instance", session |-> session, out |-> Ok(None),
               before |-> Heap]
    /\ UNCHANGED <<histVars, spanVars, vecVars, PRICING, schema, traceVars, regVars, thrVars>>

\* agentscope.init(mode): the exception of start leaves init before
\* set_instance and before the return
AgInit(mode, fail) ==
    /\ Len(sessions) < MaxSessions
    /\ Len(objects) < MaxObjects
    /\ LET self == Len(sessions) + 1
           h1 == [Heap EXCEPT !.sessions = Append(@, Session(mode)),
                              !._session = self]
           r == start(h1, self, fail)
       IN  IF ~r.out.ok
           THEN /\ SetHeap(r.h)
                /\ ret' = [op |-> "agentscope.init", mode |-> mode, session |-> self,
                           out |-> r.out, before |-> Heap]
           ELSE /\ SetHeap(set_instance(r.h, self))
                /\ ret' = [op |-> "agentscope.init", mode |-> mode, session |-> self,
                           out |-> Ok(self), before |-> Heap]
    /\ UNCHANGED <<histVars, spanVars, vecVars, PRICING, schema, traceVars, regVars, thrVars>>

-----------------------------------------------------------------------------
(* The trace decorator (agentscope/core/decorators.py) *)

MaxWrappers == 2
MaxCalls == 2

s_f == <<"f">>
s_custom_span == <<"c","u","s","t","o","m","_","s","p","a","n">>
s_test_result == <<"t","e","s","t","_","r","e","s","u","l","t">>

Args == {IntV(0), IntV(1)}

\* the functions that get decorated: `body` is what a call returns or raises
\* for each argument
Funcs ==
    {[callable |-> TRUE, __name__ |-> StrV(s_f), body |-> b] :
        b \in {[a \in Args |-> Ok(StrV(s_test_result))],
               [a \in Args |-> IF a = IntV(0) THEN Ok(None) ELSE Raise("ValueError")],
               [a \in Args |-> IF a = IntV(0) THEN Ok(a) ELSE Ok(StrV(s_test_result))]}}

\* the values given as `name`: none, the empty string, a name
Names == {None, StrV(<<>>), StrV(s_custom_span)}

\* callable(name)
Callable(name) == "callable" \in DOMAIN name

\* a wrapper that hands back nothing
WrapperReturnsNone(w, result) == IF result.ok THEN Ok(None) ELSE result

\* `return result` inside the with block, and the exception of the body
\* leaving it
WrapperReturn(w, result) == result

\* decorator(func), `name` being the variable of the enclosing call
decorator(name, func) ==
    [func |-> func, span_name |-> IF Truthy(name) THEN name ELSE func.__name__]

\* trace_function(name) followed by the application to func that the
\* decorator syntax makes: used bare, name is the function itself and the
\* wrapper is returned at once
trace_function(name, func) ==
    IF Callable(name) THEN decorator(None, name) ELSE decorator(name, func)

\* @trace_function (bare) or @trace_function(name=name) above `def func`
Decorate(bare, name, func) ==
    /\ Len(wrappers) < MaxWrappers
    /\ wrappers' = Append(wrappers,
                          IF bare THEN trace_function(func, func)
                          ELSE trace_function(name, func))
    /\ ret' = [op |-> "decorate", bare |-> bare, name |-> name, func |-> func]
    /\ UNCHANGED <<histVars, spanVars, vecVars, PRICING, schema, regVars, thrVars, sessVars, frame, otel_spans>>

\* wrapper(arg) up to the body: tracer.start_as_current_span(span_name) is
\* entered
CallWrapper(w, arg) ==
    /\ frame.pc = "idle"
    /\ frame.calls < MaxCalls
    /\ otel_spans' = Append(otel_spans,
                            [name |-> wrappers[w].span_name, ended |-> FALSE,
                             status |-> "UNSET"])
    /\ frame' = [pc |-> "body", calls |-> frame.calls + 1, wrapper |-> w,
                 arg |-> arg, span |-> Len(otel_spans) + 1]
    /\ ret' = [op |-> "enter", wrapper |-> w, arg |-> arg]
    /\ UNCHANGED <<histVars, spanVars, vecVars, PRICING, schema, regVars, thrVars, sessVars, wrappers>>

\* result = func(*args, **kwargs)
RunBody ==
    /\ frame.pc = "body"
    /\ frame' = [pc |-> "exit", calls |-> frame.calls, wrapper |-> frame.wrapper,
                 arg |-> frame.arg, span |-> frame.span,
                 result |-> wrappers[frame.wrapper].func.body[frame.arg]]
    /\ ret' = [op |-> "body", wrapper |-> frame.wrapper, arg |-> frame.arg,
               span |-> otel_spans[frame.span]]
    /\ UNCHANGED <<histVars, spanVars, vecVars, PRICING, schema, regVars, thrVars, sessVars, wrappers, otel_spans>>

\* the with block is left: the span ends (with status ERROR when the body
\* raised) and the wrapper returns the result or lets the exception through
ReturnWrapper ==
    /\ frame.pc = "exit"
    /\ LET w == wrappers[frame.wrapper]
           result == frame.result
       IN  /\ otel_spans' = [otel_spans EXCEPT ![frame.span].ended = TRUE,
                                               ![frame.span].status =
                                                   IF result.ok THEN "UNSET" ELSE "ERROR"]
           /\ ret' = [op |-> "call", wrapper |-> frame.wrapper, arg |-> frame.arg,
                      span |-> frame.span, out |-> WrapperReturn(w, result)]
    /\ frame' = [pc |-> "idle", calls |-> frame.calls]
    /\ UNCHANGED <<histVars, spanVars, vecVars, PRICING, schema, regVars, thrVars, sessVars, wrappers>>

-----------------------------------------------------------------------------
(* Concurrent callers on one database file.  Each call opens its own         *)
(* connection; SQLite lets one connection write at a time, and a statement   *)
(* that finds the file locked waits for the connection's timeout and then    *)
(* raises OperationalError("database is locked").                            *)

Threads == {1, 2}

\* the thread has a call under way
Running(t) == threads[t].pc \notin {"idle", "done", "raised"}

\* a store that lets every connection write at any time
CanWriteUnlocked(t) == TRUE

\* thread t may write: no other connection holds the write lock
CanWrite(t) == lock \in {0, t}

\* the call of thread t ends with an exception; the with block rolls its
\* transaction back and the write lock is released
Abort(t, exc) ==
    /\ threads' = [threads EXCEPT ![t].pc = "raised", ![t].out = Raise(exc)]
    /\ lock' = IF lock = t THEN 0 ELSE lock

\* log_embedding(text, vector, ...) is entered by thread t: the span context
\* is read, the vector serialized, the connection opened and sqlite_vec loaded
LogBegin(t, text, vector) ==
    /\ threads[t].pc = "idle"
    /\ threads' = [threads EXCEPT ![t] =
                      [op |-> "log_embedding", pc |-> "ensure", text |-> text,
                       vector |-> vector, row_id |-> 0, before |-> VectorDb,
                       out |-> Ok(None)]]
    /\ UNCHANGED <<histVars, spanVars, vecVars, PRICING, schema, ret, sessVars, traceVars,
                   regVars, lock>>

\* ensure_vector_table(conn, dimension): CREATE VIRTUAL TABLE IF NOT EXISTS,
\* a write in autocommit mode
LogEnsureTable(t) ==
    /\ threads[t].op = "log_embedding" /\ threads[t].pc = "ensure"
    /\ CanWrite(t)
    /\ vector_tables' = ensure_vector_table(vector_tables, Len(threads[t].vector))
    /\ threads' = [threads EXCEPT ![t].pc = "insert_vector"]
    /\ UNCHANGED <<histVars, spanVars, vector_metadata, vm_seq, logged, PRICING, schema, ret,
                   sessVars, traceVars, regVars, lock>>

\* INSERT INTO vectors_N(embedding): the statement opens the transaction of
\* the connection and takes the write lock; row_id = cursor.lastrowid
LogInsertVector(t) ==
    /\ threads[t].op = "log_embedding" /\ threads[t].pc = "insert_vector"
    /\ CanWrite(t)
    /\ LET table_name == get_vector_table_name(Len(threads[t].vector))
       IN  /\ vector_tables' = [vector_tables EXCEPT
                                   ![table_name] = Append(@, threads[t].vector)]
           /\ threads' = [threads EXCEPT
                             ![t].pc = "insert_metadata",
                             ![t].row_id = Len(vector_tables[table_name]) + 1,
                             ![t].before = VectorDb]
    /\ lock' = t
    /\ UNCHANGED <<histVars, spanVars, vector_metadata, vm_seq, logged, PRICING, schema, ret,
                   sessVars, traceVars, regVars>>

\* INSERT INTO vector_metadata, inside the transaction
LogInsertMetadata(t) ==
    /\ threads[t].op = "log_embedding" /\ threads[t].pc = "insert_metadata"
    /\ LET table_name == get_vector_table_name(Len(threads[t].vector))
           meta_dict == ("model" :> StrV(s_model))
                        @@ ("dimension" :> IntV(Len(threads[t].vector)))
                        @@ ("type" :> StrV(s_document))
       IN  vector_metadata' = vector_metadata \cup
              {[id |-> vm_seq + 1, vector_rowid |-> threads[t].row_id,
                table_name |-> table_name, span_id |-> StrV(s_no_span),
                trace_id |-> StrV(s_no_trace), content |-> threads[t].text,
                metadata |-> json_dumps(meta_dict)]}
    /\ vm_seq' = vm_seq + 1
    /\ threads' = [threads EXCEPT ![t].pc = "commit"]
    /\ UNCHANGED <<histVars, spanVars, vector_tables, logged, PRICING, schema, ret, sessVars,
                   traceVars, regVars, lock>>

\* conn.commit(): the transaction becomes durable and the lock is released
LogCommit(t) ==
    /\ threads[t].op = "log_embedding" /\ threads[t].pc = "commit"
    /\ threads' = [threads EXCEPT ![t].pc = "done"]
    /\ lock' = 0
    /\ logged' = logged @@ (vm_seq :>
                    [vector |-> threads[t].vector, span_id |-> StrV(s_no_span),
                     text |-> threads[t].text, metadata |-> EmptyMap])
    /\ ret' = [op |-> "log_embedding", thread |-> t, out |-> Ok(None)]
    /\ UNCHANGED <<histVars, spanVars, vector_tables, vector_metadata, vm_seq, PRICING, schema,
                   sessVars, traceVars, regVars>>

\* a statement of thread t raises: "database is locked" after the timeout
\* when another connection holds the write lock, or any other error of the
\* store inside the transaction.  What the transaction wrote is rolled back;
\* a table created by ensure_vector_table stays.
LogRaise(t) ==
    /\ threads[t].op = "log_embedding"
    /\ \/ threads[t].pc \in {"ensure", "insert_vector"} /\ ~CanWrite(t)
       \/ threads[t].pc \in {"insert_metadata", "commit"}
    /\ LET written == VectorDb
           before == IF lock = t THEN threads[t].before ELSE VectorDb
       IN  SetVectorDb([f \in DOMAIN written |-> ConnExit(before[f], written[f], TRUE)])
    /\ Abort(t, "OperationalError")
    /\ ret' = [op |-> "log_embedding", thread |-> t, out |-> Raise("OperationalError")]
    /\ UNCHANGED <<histVars, spanVars, PRICING, schema, sessVars, traceVars, regVars>>

\* export(batch) is entered by thread t on an exporter of its own: the rows
\* are built before the connection is opened; an exception while building
\* is caught and FAILURE returned
ExportBegin(t, batch) ==
    /\ threads[t].pc = "idle"
    /\ LET built == [i \in 1..Len(batch) |-> BuiltRows[PRICING][batch[i]]]
           buildRaised == \E i \in 1..Len(batch) : ~built[i].ok
       IN  threads' = [threads EXCEPT ![t] =
              [op |-> "export", pc |-> IF buildRaised THEN "done" ELSE "insert",
               batch |-> batch,
               data |-> IF buildRaised THEN <<>>
                        ELSE [i \in 1..Len(batch) |-> built[i].v],
               k |-> 0, before |-> spans, executes |-> 0,
               result |-> IF buildRaised THEN "FAILURE" ELSE "none"]]
    /\ UNCHANGED <<histVars, spanVars, vecVars, PRICING, schema, ret, sessVars, traceVars,
                   regVars, lock>>

\* conn.executemany(INSERT OR REPLACE ...) writes the next row of data; the
\* first row opens the transaction and takes the write lock
ExportInsertRow(t) ==
    /\ threads[t].op = "export" /\ threads[t].pc = "insert"
    /\ CanWrite(t)
    /\ schema.table /\ INSERT_COLUMNS \subseteq DOMAIN schema.columns
    /\ spans' = InsertOrReplace(spans, threads[t].data[threads[t].k + 1])
    /\ threads' = [threads EXCEPT
                      ![t].k = @ + 1,
                      ![t].before = IF threads[t].k = 0 THEN spans ELSE @,
                      ![t].executes = 1,
                      ![t].pc = IF threads[t].k + 1 = Len(threads[t].data)
                                THEN "commit" ELSE "insert"]
    /\ lock' = t
    /\ UNCHANGED <<histVars, latest, vecVars, PRICING, schema, ret, sessVars, traceVars, regVars>>

\* the with block is left normally: commit, SpanExportResult.SUCCESS
ExportCommit(t) ==
    /\ threads[t].op = "export" /\ threads[t].pc = "commit"
    /\ threads' = [threads EXCEPT ![t].pc = "done", ![t].result = "SUCCESS"]
    /\ lock' = 0
    /\ latest' = Record(latest, threads[t].batch, PRICING)
    /\ ret' = [op |-> "export", thread |-> t, result |-> "SUCCESS"]
    /\ UNCHANGED <<histVars, spans, vecVars, PRICING, schema, sessVars, traceVars, regVars>>

\* a statement of the export raises: "database is locked" after the timeout
\* when another connection holds the write lock, or an error of the store.
\* The with block rolls back, `except Exception` returns FAILURE; the batch
\* is not tried again.
ExportFail(t) ==
    /\ threads[t].op = "export" /\ threads[t].pc \in {"insert", "commit"}
    /\ spans' = ConnExit(IF lock = t THEN threads[t].before ELSE spans, spans, TRUE)
    /\ threads' = [threads EXCEPT ![t].pc = "done", ![t].result = "FAILURE",
                                  ![t].executes = 1]
    /\ lock' = IF lock = t THEN 0 ELSE lock
    /\ ret' = [op |-> "export", thread |-> t, result |-> "FAILURE"]
    /\ UNCHANGED <<histVars, latest, vecVars, PRICING, schema, sessVars, traceVars, regVars>>

\* the process at import: no session constructed, nothing registered
InitProcess ==
    /\ sessions = <<>>
    /\ objects = <<>>
    /\ _instance = 0
    /\ _session = 0
    /\ _TRACER_PROVIDER = 0
    /\ wrappers = <<>>
    /\ frame = [pc |-> "idle", calls |-> 0]
    /\ otel_spans = <<>>
    /\ EMBEDDING_DIMS = BUILTIN_EMBEDDING_DIMS
    /\ TOKEN_LIMITS = BUILTIN_TOKEN_LIMITS
    /\ threads = [t \in Threads |-> [op |-> "none", pc |-> "idle"]]
    /\ lock = 0
    /\ upgrade = [old |-> [schema |-> schema, rows |-> spans], ops |-> {}]

Init ==
    /\ spans = {}
    /\ vector_tables = [k \in {} |-> <<>>]
    /\ vector_metadata = {}
    /\ vm_seq = 0
    /\ PRICING = BUILTIN_PRICING
    /\ schema = CurrentSchema
    /\ ret = [op |-> "init"]
    /\ latest = [k \in {} |-> <<>>]
    /\ logged = [k \in {} |-> <<>>]
    /\ InitProcess

\* the attribute maps handed to detect_provider on its own: every choice of
\* a value, or of no value, for the keys it reads
s_anthropic_url ==
    <<"h","t","t","p","s",":","/","/","A","P","I",".","a","n","t","h","r","o","p","i","c",
      ".","c","o","m","/","v","1">>
s_openai_host == <<"a","p","i",".","o","p","e","n","a","i",".","c","o","m">>
s_lmstudio_url ==
    <<"h","t","t","p",":","/","/","l","o","c","a","l","h","o","s","t",":","1","2","3","4">>
s_Claude3 == <<"C","l","a","u","d","e","-","3">>

Absent == [t |-> "absent", s |-> <<>>, n |-> 0]

DetectChoices ==
    [a \in {"gen_ai.system", "server.address", "url.full", "base_url",
            "gen_ai.request.model"} |->
        CASE a = "gen_ai.system" ->
                {Absent, StrV(s_OpenAI), StrV(s_Ollama), IntV(42), BoolV(TRUE)}
          [] a = "server.address" -> {Absent, StrV(s_openai_host), IntV(8080)}
          [] a = "url.full" ->
                {Absent, StrV(s_ollama_url), StrV(s_anthropic_url), FloatV(1500)}
          [] a = "base_url" -> {Absent, StrV(s_lmstudio_url)}
          [] OTHER -> {Absent, StrV(s_gpt4), StrV(s_Claude3), StrV(s_Llama3), IntV(7)}]

\* the dict that holds exactly the keys of `choice` that were given a value
AsDict(choice) ==
    [k \in {a \in DOMAIN choice : choice[a] # Absent} |-> choice[k]]

DetectInputs ==
    {AsDict(c) : c \in {f \in [DOMAIN DetectChoices ->
                                  UNION {DetectChoices[a] : a \in DOMAIN DetectChoices}] :
                           \A a \in DOMAIN DetectChoices : f[a] \in DetectChoices[a]}}

\* a call of detector.detect_provider(attributes)
DetectProvider(attributes) ==
    /\ ret' = [op |-> "detect_provider", attributes |-> attributes,
               out |-> detect_provider(attributes)]
    /\ UNCHANGED <<spanVars, vecVars, PRICING, schema, procVars>>

DetectStep == \E attributes \in DetectInputs : DetectProvider(attributes)

\* the detector alone, applied to every attribute map of DetectInputs
SpecDetect == Init /\ [][DetectStep]_vars

ExportStep == \E batch \in Batches : \E failAt \in 0..(Len(batch) + 1) : Export(batch, failAt)

\* the span exporter alone: any sequence of export calls
SpecExport == Init /\ [][ExportStep]_vars

\* one span exported on its own, accepted by the store
ExportOneStep == \E span \in SpanInputs : Export(<<span>>, 0)

Next == ExportOneStep \/ LogStep \/ ClearStep

\* the store as a whole: spans exported, embeddings logged, and cli clear
Spec == Init /\ [][Next]_vars

s_claude_haiku == <<"c","l","a","u","d","e","-","3","-","h","a","i","k","u">>

\* the attribute maps and providers handed to extract_cost_info on its own
CostChoices ==
    [a \in {"gen_ai.usage.prompt_tokens", "gen_ai.usage.completion_tokens",
            "gen_ai.usage.total_tokens", "gen_ai.request.model"} |->
        CASE a = "gen_ai.usage.prompt_tokens" -> {Absent, IntV(1000), IntV(3)}
          [] a = "gen_ai.usage.completion_tokens" -> {Absent, IntV(500)}
          [] a = "gen_ai.usage.total_tokens" -> {Absent, IntV(1500), StrV(s_abc)}
          [] OTHER -> {Absent, StrV(s_gpt4), StrV(s_claude_haiku), StrV(s_Llama3),
                       IntV(7)}]

CostInputs ==
    {AsDict(c) : c \in {f \in [DOMAIN CostChoices ->
                                  UNION {CostChoices[a] : a \in DOMAIN CostChoices}] :
                           \A a \in DOMAIN CostChoices : f[a] \in CostChoices[a]}}

CostProviders == {s_openai, s_anthropic, s_google, s_ollama, s_unknown}

CostStep ==
    \E attributes \in CostInputs, provider \in CostProviders :
       ExtractCostInfo(attributes, provider)

RegisterStep ==
    \E name \in CustomModels, pricing \in CustomPricings :
       RegisterCustomModel(name, None, None, pricing)

\* extract_cost_info on its own, while custom models are registered
SpecCost == Init /\ [][CostStep \/ RegisterStep]_vars

ExportPricedStep == \E span \in PricedSpanInputs : Export(<<span>>, 0)

\* spans exported one at a time while custom models are registered
SpecPriced == Init /\ [][RegisterStep \/ ExportPricedStep]_vars

\* span and trace ids at full width: 1, 16, 2^16 and 2^64 - 1; 1, 2^64 and
\* 2^128 - 1
Ids64 == {<<0, 0, 0, 1>>, <<0, 0, 0, 16>>, <<0, 0, 1, 0>>,
          <<65535, 65535, 65535, 65535>>}
Ids128 == {<<0, 0, 0, 0, 0, 0, 0, 1>>, <<0, 0, 0, 1, 0, 0, 0, 0>>,
           <<65535, 65535, 65535, 65535, 65535, 65535, 65535, 65535>>}

\* a parent span context
Ctx(limbs) == [t |-> "ctx", s |-> limbs, n |-> 0]
Parents == {None, Ctx(<<0, 0, 0, 1>>), Ctx(<<65535, 65535, 65535, 65535>>)}

\* the identifiers derived for one record at the head of the loop of export
\* (and in the same way by log_embedding); `prev` keeps the record encoded
\* by the call before
EncodeIds(trace_id, span_id, parent) ==
    /\ ret' = [op |-> "encode_ids", trace_id |-> trace_id, span_id |-> span_id,
               parent |-> parent,
               out |-> [trace_id |-> StrV(FormatHexId(trace_id, 32)),
                        span_id |-> StrV(FormatHexId(span_id, 16)),
                        parent_span_id |-> IF parent # None
                                           THEN StrV(FormatHexId(parent.s, 16))
                                           ELSE None],
               prev |-> IF ret.op = "encode_ids"
                        THEN [trace_id |-> ret.trace_id, span_id |-> ret.span_id,
                              out |-> ret.out]
                        ELSE [trace_id |-> trace_id, span_id |-> span_id,
                              out |-> [trace_id |-> StrV(FormatHexId(trace_id, 32)),
                                       span_id |-> StrV(FormatHexId(span_id, 16)),
                                       parent_span_id |-> None]]]
    /\ UNCHANGED <<spanVars, vecVars, PRICING, schema, procVars>>

EncodeStep ==
    \E trace_id \in Ids128, span_id \in Ids64, parent \in Parents :
       EncodeIds(trace_id, span_id, parent)

\* the identifier encoding alone
SpecIds == Init /\ [][EncodeStep]_vars

\* the rows a store holds before it is migrated: the rows of two spans,
\* with the columns the store has
StoredRows(sch) ==
    {[c \in DOMAIN sch.columns |->
         BuiltRows[BUILTIN_PRICING][MkSpan(k, SpanShapes[k + 1])].v[c]] : k \in SpanIds}

NoColumns == [c \in {} |-> "TEXT"]

\* the stores a migration is run on: no database file; a file without
\* table spans; a store created before the performance columns; one created
\* before the streaming columns; a store with the current schema
StoresToMigrate ==
    {[file |-> FALSE, table |-> FALSE, columns |-> NoColumns],
     [file |-> TRUE, table |-> FALSE, columns |-> NoColumns],
     [file |-> TRUE, table |-> TRUE, columns |-> Declared(BASE_COLUMNS)],
     [file |-> TRUE, table |-> TRUE,
      columns |-> Declared(BASE_COLUMNS \o performance_columns)],
     CurrentSchema}

InitMigrate ==
    /\ schema \in StoresToMigrate
    /\ spans = IF schema.table THEN StoredRows(schema) ELSE {}
    /\ vector_tables = [k \in {} |-> <<>>]
    /\ vector_metadata = {}
    /\ vm_seq = 0
    /\ PRICING = BUILTIN_PRICING
    /\ ret = [op |-> "init"]
    /\ latest = [k \in {} |-> <<>>]
    /\ logged = [k \in {} |-> <<>>]
    /\ InitProcess

\* the statements made to meet a fault: none, the first, the second, the last
FaultPositions(cols) == {0, 1, 2, Len(cols)}

MigratePerformanceStep ==
    \E faultAt \in FaultPositions(performance_columns), fault \in Faults :
       MigratePerformance(faultAt, IF faultAt = 0 THEN NoError ELSE fault)

MigrateStreamingStep ==
    \E faultAt \in FaultPositions(streaming_columns), fault \in Faults :
       MigrateStreaming(faultAt, IF faultAt = 0 THEN NoError ELSE fault)

\* the two migrations run any number of times, in any order, on a store of
\* any age
SpecMigrate == InitMigrate /\ [][MigratePerformanceStep \/ MigrateStreamingStep]_vars

RECURSIVE SubSeqs(_)
\* the subsequences of a sequence
SubSeqs(q) ==
    IF q = <<>> THEN {<<>>}
    ELSE LET rest == SubSeqs(Tail(q))
         IN  rest \cup {<<Head(q)>> \o r : r \in rest}

\* stores created by earlier versions: table spans with the base and
\* enrichment columns and any part of the first and last performance columns
\* and of the first and last streaming columns
UpgradeStores ==
    {[file |-> TRUE, table |-> TRUE, columns |-> Declared(BASE_COLUMNS \o perf \o strm)] :
        perf \in SubSeqs(<<performance_columns[1],
                           performance_columns[Len(performance_columns)]>>)
                 \cup {performance_columns},
        strm \in SubSeqs(<<streaming_columns[1],
                           streaming_columns[Len(streaming_columns)]>>)
                 \cup {streaming_columns}}
    \ {CurrentSchema}

InitUpgrade ==
    /\ schema \in UpgradeStores
    /\ spans = StoredRows(schema)
    /\ vector_tables = [k \in {} |-> <<>>]
    /\ vector_metadata = {}
    /\ vm_seq = 0
    /\ PRICING = BUILTIN_PRICING
    /\ ret = [op |-> "init"]
    /\ latest = [k \in {} |-> <<>>]
    /\ logged = [k \in {} |-> <<>>]
    /\ InitProcess

UpgradeStep ==
    \/ _init_schema
    \/ MigratePerformance(0, NoError)
    \/ MigrateStreaming(0, NoError)
    \/ Export(<< MkSpan(1, SpanShapes[2]) >>, 0)

\* an exporter constructed on a store of an earlier version, the two
\* migrations and exports, in any order
SpecUpgrade == InitUpgrade /\ [][UpgradeStep]_vars

ListTracesStep == \E fail \in BOOLEAN : ListTraces(fail)

\* one span exported on its own, the store accepting or rejecting the insert
\* or the commit
ExportSingleStep ==
    \E span \in SpanInputs, failAt \in 0..2 : Export(<<span>>, failAt)

\* spans exported one at a time and the trace list read
SpecTraces == Init /\ [][ExportSingleStep \/ ListTracesStep]_vars

\* one call of each kind of operation at a time on one store: exports of
\* span 1, embeddings of length 1 logged and queried, the streaming
\* migration, the trace list
ExportSpanOneStep ==
    \E span \in {sp \in SpanInputs : sp.span_id = 1}, failAt \in 0..2 :
       Export(<<span>>, failAt)

LogOneStep ==
    /\ vm_seq < MaxVectors
    /\ \E available \in BOOLEAN, fail \in LogFailures :
          LogEmbedding(StrV(s_doc), <<1>>, StrV(s_model), EmptyMap,
                       StrV(s_document), [span_id |-> 1, trace_id |-> 1],
                       available, fail)

QueryOneStep ==
    \E q \in {<<1>>, <<1, 1, 1>>}, available \in BOOLEAN :
       GetSimilarVectors(q, 1, None, available)

SpecHandles ==
    Init /\ [][ExportSpanOneStep \/ LogOneStep \/ QueryOneStep
                 \/ MigrateStreamingStep \/ ListTracesStep]_vars

NewSessionStep == \E mode \in Modes : NewSession(mode)

StartStep == \E self \in 1..Len(sessions), fail \in BOOLEAN : SessionStart(self, fail)

StopStep == \E self \in 1..Len(sessions) : SessionStop(self)

SetInstanceStep == \E session \in 1..Len(sessions) : SetInstance(session)

AgInitStep == \E mode \in Modes, fail \in BOOLEAN : AgInit(mode, fail)

\* sessions constructed, started, stopped and registered in any order, by
\* hand or through agentscope.init
SpecSession ==
    Init /\ [][NewSessionStep \/ StartStep \/ StopStep \/ SetInstanceStep
                 \/ AgInitStep]_vars

\* most documents handed to one log_retrieval call
MaxDocs == 2

s_source == <<"s","o","u","r","c","e">>

\* retrieved documents: with text and vector, with content, metadata and
\* vector, and as the docstring describes them, with text and metadata only
Docs ==
    {("text" :> StrV(s_doc)) @@ ("vector" :> <<1, 0>>),
     ("content" :> StrV(s_document)) @@ ("metadata" :> ("source" :> StrV(s_source)))
        @@ ("vector" :> <<3, 4>>),
     ("text" :> StrV(s_doc)) @@ ("metadata" :> ("source" :> StrV(s_source)))}

Scores == {FloatV(950), FloatV(870)}

LogRetrievalStep ==
    /\ vm_seq < MaxVectors
    /\ \E retrieved_docs \in SeqsUpTo(Docs, MaxDocs), scores \in SeqsUpTo(Scores, MaxDocs),
          available \in BOOLEAN, failAt \in 0..MaxDocs :
          LogRetrieval(StrV(s_query), <<1, 0>>, retrieved_docs, scores, StrV(s_model),
                       [span_id |-> 1, trace_id |-> 1], available, failAt, "metadata")

\* retrievals logged one after another
SpecRetrieval == Init /\ [][LogRetrievalStep]_vars

DecorateStep ==
    \E bare \in BOOLEAN, name \in Names, func \in Funcs : Decorate(bare, name, func)

CallStep == \E w \in 1..Len(wrappers), arg \in Args : CallWrapper(w, arg)

\* functions decorated and called, one call at a time
SpecTrace == Init /\ [][DecorateStep \/ CallStep \/ RunBody \/ ReturnWrapper]_vars

s_gpt4_custom == <<"g","p","t","-","4","-","c","u","s","t","o","m">>
s_bge == <<"b","g","e">>

\* the names registered: a built-in key of TOKEN_LIMITS and PRICING, a name
\* that holds that key, and a name held by keys of EMBEDDING_DIMS
RegistryNames == {s_gpt4, s_gpt4_custom, s_bge}
\* the values given as embedding_dim and token_limit: omitted, 0, a number
RegistryDims == {None, IntV(0), IntV(512)}
RegistryLimits == {None, IntV(4096)}

\* most entries the registrations add to the three tables together
MaxCustom == 2

CustomEntries ==
    (Len(EMBEDDING_DIMS) - Len(BUILTIN_EMBEDDING_DIMS))
    + (Len(TOKEN_LIMITS) - Len(BUILTIN_TOKEN_LIMITS))
    + (Len(PRICING) - Len(BUILTIN_PRICING))

RegisterFullStep ==
    /\ CustomEntries < MaxCustom
    /\ \E name \in RegistryNames, embedding_dim \in RegistryDims,
       token_limit \in RegistryLimits, pricing \in CustomPricings :
       RegisterCustomModel(name, embedding_dim, token_limit, pricing)

\* extract_cost_info for 1000 prompt and 500 completion tokens of a
\* registered name
RegistryCostStep ==
    \E name \in RegistryNames, provider \in {s_openai, s_ollama} :
       ExtractCostInfo(("gen_ai.usage.prompt_tokens" :> IntV(1000))
                       @@ ("gen_ai.usage.completion_tokens" :> IntV(500))
                       @@ ("gen_ai.request.model" :> StrV(name)), provider)

\* models registered at run time and then looked up and priced
SpecRegistry == Init /\ [][RegisterFullStep \/ RegistryCostStep]_vars

ForkSpanStep ==
    \E id \in 1..3, fail \in BOOLEAN, available \in BOOLEAN,
       response \in {Ok(StrV(s_hello)), Raise("TimeoutError")} :
       ForkSpan(StrV(FormatHex(id, 16)), StrV(s_hi), fail, available, response)

\* spans exported one at a time and replayed
SpecReplay == Init /\ [][ExportSingleStep \/ ForkSpanStep]_vars

s_doc_a == <<"a">>
s_doc_b == <<"b">>

\* the text and the vector each thread logs: two vectors of one dimension
ThreadText == [t \in Threads |-> IF t = 1 THEN StrV(s_doc_a) ELSE StrV(s_doc_b)]
ThreadVectors == {<<1, 0>>, <<3, 4>>, <<0, 1>>}

LogThreadStep ==
    \E t \in Threads :
       \/ \E vector \in ThreadVectors : LogBegin(t, ThreadText[t], vector)
       \/ LogEnsureTable(t)
       \/ LogInsertVector(t)
       \/ LogInsertMetadata(t)
       \/ LogCommit(t)
       \/ LogRaise(t)

\* two log_embedding calls running concurrently on an empty store, both the
\* first use of their dimension
SpecLogRace == Init /\ [][LogThreadStep]_vars

\* the batches of the two exporters: each holds a record of span 1, in
\* different shapes, next to records of span 2; the last one holds a record
\* whose enrichment raises
RaceBatches ==
    { << MkSpan(1, SpanShapes[1]) >>,
      << MkSpan(1, SpanShapes[2]), MkSpan(2, SpanShapes[3]) >>,
      << MkSpan(2, SpanShapes[1]), MkSpan(1, SpanShapes[3]) >>,
      << MkSpan(2, SpanShapes[2]), MkSpan(1, SpanShapes[4]) >> }

ExportThreadStep ==
    \E t \in Threads :
       \/ \E batch \in RaceBatches : ExportBegin(t, batch)
       \/ ExportInsertRow(t)
       \/ ExportCommit(t)
       \/ ExportFail(t)

\* two export calls running concurrently on one store, from two exporters
SpecExportRace == Init /\ [][ExportThreadStep]_vars

\* the vector store alone: any sequence of log_embedding and
\* get_similar_vectors calls
SpecVec == Init /\ [][LogStep \/ QueryStep]_vars

-----------------------------------------------------------------------------
(* Properties of export *)

\* C1: after any sequence of export calls the spans table holds exactly one
\* row per span_id ever committed, and that row is, column for column, the
\* row built from the span most recently exported under that span_id:
\* nothing of an earlier export of the same span_id survives.
C1_OneRowLatestWins ==
    /\ \A r1, r2 \in spans : r1.span_id = r2.span_id => r1 = r2
    /\ {r.span_id : r \in spans} = DOMAIN latest
    /\ \A r \in spans :
          r = BuildRow(latest[r.span_id].pricing, latest[r.span_id].span).v

\* a committed batch of two records that carry the same span_id and differ
\* in their attributes, leaving the single row of the second record
C1_Witness ==
    /\ ret.op = "export" /\ ret.result = "SUCCESS" /\ ret.n = 2
    /\ Cardinality(spans) = 1
    /\ \E r \in spans : r.status_code = StrV(s_ERROR) /\ r.prompt_tokens = IntV(7)

\* C2: export is all-or-nothing: whenever building or writing a record of
\* the batch fails, the call returns FAILURE without raising and the spans
\* table is what it was before the call.
C2_FailedBatchLeavesNoTrace ==
    [][(ret'.op = "export" /\ ret'.exc # "none")
          => (ret'.result = "FAILURE" /\ ~ret'.raised /\ spans' = spans)]_vars

\* a batch whose second or later insert was rejected by the store, on a
\* table that already held rows
C2_Witness ==
    /\ ret.op = "export" /\ ret.exc = "OperationalError"
    /\ ret.failAt >= 2 /\ ret.failAt <= ret.n
    /\ ret.result = "FAILURE"
    /\ spans # {}

\* C9 (as claimed): a record whose enrichment cannot be resolved is still
\* persisted: an export whose every statement the store accepted succeeds,
\* whatever the attribute values of its records.
C9_EnrichmentNeverDropsBatch ==
    (ret.op = "export" /\ ret.failAt = 0) => ret.result = "SUCCESS"

\* the persisted column and the attribute key it is read from, for the
\* performance, configuration, resource and streaming fields
FIELD_KEYS ==
    << [field |-> "ttft_ms", attr |-> "llm.ttft_ms"],
       [field |-> "tokens_per_second", attr |-> "llm.tokens_per_second"],
       [field |-> "generation_time_ms", attr |-> "llm.generation_time_ms"],
       [field |-> "temperature", attr |-> "gen_ai.request.temperature"],
       [field |-> "top_p", attr |-> "gen_ai.request.top_p"],
       [field |-> "top_k", attr |-> "gen_ai.request.top_k"],
       [field |-> "max_tokens", attr |-> "gen_ai.request.max_tokens"],
       [field |-> "context_window_size", attr |-> "gen_ai.model.context_window"],
       [field |-> "cpu_percent", attr |-> "system.cpu_percent"],
       [field |-> "memory_mb", attr |-> "system.memory_mb"],
       [field |-> "gpu_utilization", attr |-> "system.gpu_utilization"],
       [field |-> "gpu_memory_used_mb", attr |-> "system.gpu_memory_used_mb"],
       [field |-> "streaming_enabled", attr |-> "llm.streaming.enabled"],
       [field |-> "streaming_chunk_count", attr |-> "llm.streaming.chunk_count"],
       [field |-> "streaming_ttft_ms", attr |-> "llm.streaming.ttft_ms"],
       [field |-> "streaming_total_time_ms", attr |-> "llm.streaming.total_time_ms"],
       [field |-> "streaming_avg_inter_chunk_ms",
        attr |-> "llm.streaming.avg_inter_chunk_ms"],
       [field |-> "streaming_per_token_ms", attr |-> "llm.streaming.per_token_ms"] >>

\* C15 (as claimed): for each field from ttft_ms through
\* streaming_per_token_ms, streaming_enabled included, a span that lacks the
\* attribute key has a null in the persisted column.
C15_AbsentKeyGivesNull ==
    \A r \in spans : \A i \in 1..Len(FIELD_KEYS) :
       FIELD_KEYS[i].attr \notin DOMAIN latest[r.span_id].span.attributes
          => r[FIELD_KEYS[i].field] = None

-----------------------------------------------------------------------------
(* Properties of detect_provider *)

\* C8 (as claimed): detect_provider never raises, whatever scalar values
\* the attribute map holds.
C8_DetectNeverRaises ==
    ret.op = "detect_provider" => ret.out.ok

\* C10: when gen_ai.system is present (a string), detect_provider returns
\* its lower-cased value whatever the URL-bearing and model-name attributes
\* say.
C10_ExplicitProviderWins ==
    (/\ ret.op = "detect_provider"
     /\ "gen_ai.system" \in DOMAIN ret.attributes
     /\ ret.attributes["gen_ai.system"].t = "str")
        => ret.out = Ok(StrV(Lower(ret.attributes["gen_ai.system"].s)))

\* gen_ai.system "OpenAI" together with the url of a local ollama server and
\* a claude model name: the answer is "openai"
C10_Witness ==
    /\ ret.op = "detect_provider"
    /\ "gen_ai.system" \in DOMAIN ret.attributes
    /\ ret.attributes["gen_ai.system"] = StrV(s_OpenAI)
    /\ "url.full" \in DOMAIN ret.attributes
    /\ ret.attributes["url.full"] = StrV(s_ollama_url)
    /\ "gen_ai.request.model" \in DOMAIN ret.attributes
    /\ ret.attributes["gen_ai.request.model"] = StrV(s_Claude3)
    /\ ret.out = Ok(StrV(s_openai))

\* provider number i of PROVIDER_PATTERNS has a pattern that occurs in the
\* lower-cased value of one of the url-bearing keys of `attributes`
MatchesSomeUrl(attributes, i) ==
    \E k \in 1..Len(url_fields) :
        /\ url_fields[k] \in DOMAIN attributes
        /\ attributes[url_fields[k]].t = "str"
        /\ \E j \in 1..Len(PROVIDER_PATTERNS[i].patterns) :
              Contains(Lower(attributes[url_fields[k]].s),
                       PROVIDER_PATTERNS[i].patterns[j])

\* C11 (as claimed): without gen_ai.system, and with string values under the
\* url-bearing keys, detect_provider returns the provider declared first
\* among those with a pattern matching the value of any url-bearing key,
\* whichever key it matched.
C11_FirstDeclaredProviderOfAnyUrl ==
    (/\ ret.op = "detect_provider"
     /\ "gen_ai.system" \notin DOMAIN ret.attributes
     /\ \A k \in 1..Len(url_fields) :
           url_fields[k] \in DOMAIN ret.attributes
              => ret.attributes[url_fields[k]].t = "str"
     /\ \E i \in 1..Len(PROVIDER_PATTERNS) : MatchesSomeUrl(ret.attributes, i))
        => ret.out = Ok(StrV(PROVIDER_PATTERNS[
                        CHOOSE i \in 1..Len(PROVIDER_PATTERNS) :
                           /\ MatchesSomeUrl(ret.attributes, i)
                           /\ \A j \in 1..(i - 1) : ~MatchesSomeUrl(ret.attributes, j)
                      ].provider))

-----------------------------------------------------------------------------
(* Properties of cost estimation *)

\* C12 (as claimed): extract_cost_info sets estimated_cost_usd, to
\* round(prompt_tokens * input_rate / 1000 + completion_tokens * output_rate
\* / 1000, 6), exactly when the provider is a paid provider, both
\* gen_ai.usage.prompt_tokens and gen_ai.usage.completion_tokens are present
\* and the registry returns pricing for the request model; in every other
\* case the result carries no cost.
C12_CostExactlyWhenPriced ==
    ret.op = "extract_cost_info" =>
       LET a == ret.attributes
           pricing == get_pricing(ret.pricing,
                                  Get(a, "gen_ai.request.model", StrV(<<>>)),
                                  ret.provider)
           priced == /\ ret.provider \in PAID_PROVIDERS
                     /\ "gen_ai.usage.prompt_tokens" \in DOMAIN a
                     /\ "gen_ai.usage.completion_tokens" \in DOMAIN a
                     /\ pricing.ok
                     /\ pricing.v # NoPricing
       IN  IF priced
           THEN /\ ret.out.ok
                /\ ret.out.v.estimated_cost_usd =
                      UsdV(RoundHalfEven(
                         PyInt(a["gen_ai.usage.prompt_tokens"]).v
                            * pricing.v.input_cost_per_1k
                         + PyInt(a["gen_ai.usage.completion_tokens"]).v
                            * pricing.v.output_cost_per_1k))
           ELSE ret.out.ok => ret.out.v.estimated_cost_usd = None

\* C13: in every reachable state of the spans table, whatever has been
\* registered, no row of a local/free provider carries a cost, and every row
\* that carries a cost has a paid provider and both token counts.
C13_FreeProvidersNeverCosted ==
    \A r \in spans :
       /\ r.provider.s \in FREE_PROVIDERS => r.estimated_cost_usd = None
       /\ r.estimated_cost_usd # None
             => /\ r.provider.s \in PAID_PROVIDERS
                /\ r.prompt_tokens # None
                /\ r.completion_tokens # None

\* a row of provider ollama with both token counts, exported while the
\* pricing table held an entry for its model, beside a row that has a cost
C13_Witness ==
    /\ \E r \in spans :
          /\ r.provider = StrV(s_ollama)
          /\ r.prompt_tokens # None /\ r.completion_tokens # None
          /\ \E i \in 1..Len(latest[r.span_id].pricing) :
                latest[r.span_id].pricing[i].key = r.model_name.s
          /\ r.estimated_cost_usd = None
    /\ \E r \in spans : r.estimated_cost_usd # None

-----------------------------------------------------------------------------
(* Properties of the identifier encoding *)

IsLowerHex(str, width) ==
    /\ Len(str) = width
    /\ \A i \in 1..Len(str) : \E d \in 1..16 : HexDigits[d] = str[i]

\* C14: every trace id is written as exactly 32 lowercase hexadecimal
\* characters, every span id and parent span id as exactly 16, filled with
\* zeros on the left; a record without a parent has a null parent_span_id;
\* two different trace ids, and two different span ids, are never written
\* alike.
C14_FixedWidthHexIds ==
    ret.op = "encode_ids" =>
       /\ IsLowerHex(ret.out.trace_id.s, 32)
       /\ IsLowerHex(ret.out.span_id.s, 16)
       /\ ret.parent = None => ret.out.parent_span_id = None
       /\ ret.parent # None => IsLowerHex(ret.out.parent_span_id.s, 16)
       /\ ret.trace_id = <<0, 0, 0, 0, 0, 0, 0, 1>>
             => ret.out.trace_id.s = Zeros(31) \o <<"1">>
       /\ ret.span_id = <<0, 0, 0, 1>> => ret.out.span_id.s = Zeros(15) \o <<"1">>
       /\ ret.prev.trace_id # ret.trace_id
             => ret.prev.out.trace_id # ret.out.trace_id
       /\ ret.prev.span_id # ret.span_id => ret.prev.out.span_id # ret.out.span_id

\* trace id 1 and span id 1 without a parent, encoded after a record whose
\* ids were 2^64 and 16
C14_Witness ==
    /\ ret.op = "encode_ids"
    /\ ret.trace_id = <<0, 0, 0, 0, 0, 0, 0, 1>>
    /\ ret.span_id = <<0, 0, 0, 1>>
    /\ ret.parent = None
    /\ ret.out.parent_span_id = None
    /\ ret.prev.trace_id = <<0, 0, 0, 1, 0, 0, 0, 0>>
    /\ ret.prev.span_id = <<0, 0, 0, 16>>

-----------------------------------------------------------------------------
(* Properties of the migrations *)

\* C16: a migration run on a store that already has every column of its
\* list, the store answering each statement on its merits, adds no column,
\* reports no error, and leaves the schema and every row of spans as they
\* were; for both lists and for every further run.
C16_MigrationIdempotent ==
    [][(ret'.op = "migrate" /\ ret'.ran /\ ret'.applied /\ ret'.faultAt = 0)
          => /\ ret'.added_count = 0
             /\ ret'.errors = <<>>
             /\ ret'.raised = "none"
             /\ schema' = schema
             /\ spans' = spans]_vars

\* the streaming migration run again on an old store that it had migrated:
\* all six columns skipped; the rows carry the default of the added column
C16_Witness ==
    /\ ret.op = "migrate" /\ ret.list = "streaming" /\ ret.ran
    /\ ret.applied /\ ret.faultAt = 0
    /\ ret.skipped_count = Len(streaming_columns)
    /\ schema = CurrentSchema
    /\ \E r \in spans :
          /\ r.status_code = StrV(s_OK)
          /\ r.streaming_enabled = IntV(0)
          /\ r.streaming_chunk_count = None

\* the columns of the list a migrate call worked on
ListColumns(list) ==
    IF list = "performance" THEN performance_columns ELSE streaming_columns

\* C17 (as claimed): when a column-add fails for a reason other than the
\* column already existing, the failure is recorded for that column, every
\* column of the list is still attempted, and the migration completes.
C17_FailedColumnDoesNotHaltMigration ==
    (ret.op = "migrate" /\ ret.ran /\ ret.faultAt # 0)
        => /\ \E i \in 1..Len(ret.errors) :
                 ret.errors[i] = ListColumns(ret.list)[ret.faultAt].name
           /\ ret.attempted = Len(ListColumns(ret.list))
           /\ ret.raised = "none"

-----------------------------------------------------------------------------
(* Properties of the store handles and of the read API *)

\* C18 (as claimed): every operation that opened a store handle has closed
\* it by the time it returns or raises.
C18_NoHandleLeftOpen ==
    ret.op \in {"export", "log_embedding", "get_similar_vectors", "migrate",
                "list_traces"}
        => ret.conn # "open"

\* C20 (as claimed): the trace list holds exactly one summary for each
\* trace_id of the spans table, with span_count the number of rows of the
\* trace and start_time the least start_time of its rows, ordered earliest
\* start first.
C20_TracesEarliestFirst ==
    (ret.op = "list_traces" /\ ret.out.ok)
        => /\ {ret.out.v[i].trace_id : i \in DOMAIN ret.out.v}
                 = {r.trace_id : r \in spans}
           /\ Len(ret.out.v) = Cardinality({r.trace_id : r \in spans})
           /\ \A i \in DOMAIN ret.out.v :
                 /\ ret.out.v[i].span_count =
                       Cardinality({r \in spans : r.trace_id = ret.out.v[i].trace_id})
                 /\ \A r \in spans :
                       r.trace_id = ret.out.v[i].trace_id
                          => ret.out.v[i].start_time <= r.start_time.n
                 /\ \E r \in spans :
                       /\ r.trace_id = ret.out.v[i].trace_id
                       /\ ret.out.v[i].start_time = r.start_time.n
           /\ \A i, j \in DOMAIN ret.out.v :
                 i < j => ret.out.v[i].start_time <= ret.out.v[j].start_time

-----------------------------------------------------------------------------
(* Properties of the vector store *)

\* C3: after any sequence of log_embedding calls, failed at any step or
\* not, every vector_metadata row references exactly one existing row of the
\* vector table it names, and every vector row is referenced by exactly one
\* vector_metadata row: no orphaned vector, no orphaned metadata.
C3_VectorAndMetadataPaired ==
    /\ \A vm \in vector_metadata :
          /\ vm.table_name \in DOMAIN vector_tables
          /\ Cardinality({r \in 1..Len(vector_tables[vm.table_name]) :
                            r = vm.vector_rowid}) = 1
    /\ \A t \in DOMAIN vector_tables : \A r \in 1..Len(vector_tables[t]) :
          Cardinality({vm \in vector_metadata :
                         vm.table_name = t /\ vm.vector_rowid = r}) = 1

\* a call that failed at the metadata insert, after its vector had been
\* inserted, on a store that already held a vector and its metadata
C3_Witness ==
    /\ ret.op = "log_embedding" /\ ret.fail = "metadata" /\ ~ret.out.ok
    /\ vector_metadata # {}

\* C4 (as claimed): a query whose length has no dimension table returns an
\* empty list and does not raise.
C4_MissingTableGivesEmptyList ==
    (ret.op = "get_similar_vectors" /\ ret.available /\ ~ret.table)
        => ret.out = Ok(<<>>)

\* C5: vectors of different lengths live in distinct tables named from the
\* length, and every result of a query of length d was logged with a vector
\* of length d, also when a table of another dimension holds the same row id.
C5_DimensionIsolation ==
    /\ \A v1, v2 \in Vectors \cup QueryVectors :
          Len(v1) # Len(v2)
             => get_vector_table_name(Len(v1)) # get_vector_table_name(Len(v2))
    /\ \A t \in DOMAIN vector_tables : \A r \in 1..Len(vector_tables[t]) :
          t = get_vector_table_name(Len(vector_tables[t][r]))
    /\ \A vm \in vector_metadata :
          vm.table_name = get_vector_table_name(Len(logged[vm.id].vector))
    /\ (ret.op = "get_similar_vectors" /\ ret.out.ok)
          => \A i \in DOMAIN ret.out.v :
                Len(logged[ret.out.v[i].id].vector) = Len(ret.query_vector)

\* a query of length 1 that returned the row of vectors_1 while vectors_2
\* holds a row with the same row id
C5_Witness ==
    /\ ret.op = "get_similar_vectors" /\ ret.out.ok
    /\ Len(ret.query_vector) = 1 /\ Len(ret.out.v) = 1
    /\ \E vm \in vector_metadata :
          /\ vm.table_name = get_vector_table_name(2)
          /\ vm.vector_rowid = ret.out.v[1].vector_rowid

\* C6: whatever is passed as exclude_span_id, the empty string and the
\* no-span sentinel included, no result carries that span_id.
C6_ExcludedSpanNeverReturned ==
    (ret.op = "get_similar_vectors" /\ ret.out.ok)
        => \A i \in DOMAIN ret.out.v : ret.out.v[i].span_id # ret.exclude_span_id

\* the table queried holds a vector logged under the excluded span and one
\* logged under another; only the other is returned
C6_Witness ==
    /\ ret.op = "get_similar_vectors" /\ ret.out.ok
    /\ ret.exclude_span_id = StrV(FormatHex(1, 16))
    /\ \E vm \in vector_metadata :
          /\ vm.span_id = ret.exclude_span_id
          /\ vm.table_name = get_vector_table_name(Len(ret.query_vector))
    /\ Len(ret.out.v) = 1

\* C19: a query returns at most `limit` results in non-decreasing order of
\* cosine distance to the query vector; they are rows of the table of the
\* query's dimension that are not excluded, as many as there are up to
\* `limit`, and no row left out is closer than a row returned; each result
\* carries the text and the metadata logged with its vector, its distance to
\* the query, and similarity = 1 - distance.
C19_ClosestFirstUpToLimit ==
    (ret.op = "get_similar_vectors" /\ ret.out.ok)
        => LET out == ret.out.v
               eligible == {vm \in vector_metadata :
                              /\ vm.table_name = get_vector_table_name(Len(ret.query_vector))
                              /\ ~(/\ ret.exclude_span_id.t = "str"
                                   /\ ret.exclude_span_id.s # <<>>
                                   /\ vm.span_id = ret.exclude_span_id)}
               returned == {out[i].id : i \in DOMAIN out}
           IN  /\ Len(out) <= ret.limit
               /\ Len(out) = Min(ret.limit, Cardinality(eligible))
               /\ Cardinality(returned) = Len(out)
               /\ returned \subseteq {vm.id : vm \in eligible}
               /\ \A i, j \in DOMAIN out : i < j => out[i].distance.n <= out[j].distance.n
               /\ \A vm \in eligible : \A i \in DOMAIN out :
                     vm.id \notin returned
                        => out[i].distance.n
                              <= Distance(logged[vm.id].vector, ret.query_vector).n
               /\ \A i \in DOMAIN out :
                     /\ out[i].distance = Distance(logged[out[i].id].vector, ret.query_vector)
                     /\ out[i].similarity.n = 1000 - out[i].distance.n
                     /\ out[i].content = logged[out[i].id].text
                     /\ out[i].metadata = logged[out[i].id].metadata

\* a query of limit 1 on a table of two vectors at different distances: the
\* one logged second is the closer and is the one returned, with distance 0
\* and similarity 1, while the one left out is at distance 0.4
C19_Witness ==
    /\ ret.op = "get_similar_vectors" /\ ret.out.ok
    /\ ret.limit = 1 /\ Len(ret.out.v) = 1
    /\ ret.query_vector = <<1, 0>>
    /\ ret.out.v[1].id = 2
    /\ ret.out.v[1].distance = FloatV(0)
    /\ ret.out.v[1].similarity = FloatV(1000)
    /\ 1 \in DOMAIN logged
    /\ Distance(logged[1].vector, ret.query_vector) = FloatV(400)
    /\ \E vm \in vector_metadata : vm.id = 1 /\ vm.table_name = get_vector_table_name(2)

\* C7 (as claimed): once a confirmed clear has completed, the spans table
\* and vector_metadata are empty and no dimension table remains.
C7_ClearLeavesNothing ==
    (ret.op = "clear" /\ ret.completed)
        => /\ spans = {}
           /\ vector_metadata = {}
           /\ DOMAIN vector_tables = {}

-----------------------------------------------------------------------------
(* Properties of the session manager *)

\* C21: for every mode in {terminal, web, headless} init returns without
\* raising, the returned session is active, and Session.get_instance() is
\* that session.
C21_InitReturnsActiveRegisteredSession ==
    ret.op = "agentscope.init" =>
        /\ ret.out.ok
        /\ sessions[ret.session]._active
        /\ get_instance(Heap) = ret.session

\* C22: after Session.set_instance(s), get_instance() is s, the session
\* registered before, if any and if different from s, is inactive, and s is
\* as active as it was before the call.
C22_SetInstanceKeepsRegisteredSession ==
    ret.op = "set_instance" =>
        /\ get_instance(Heap) = ret.session
        /\ (ret.before._instance # 0 /\ ret.before._instance # ret.session
               => ~sessions[ret.before._instance]._active)
        /\ (ret.before.sessions[ret.session]._active
               => sessions[ret.session]._active)

\* the components session `self` has created
Created(self) == {o \in 1..Len(objects) :
                    /\ objects[o].owner = self
                    /\ objects[o].kind \in {"TerminalUI", "SQLiteSpanExporter",
                                           "TracerProvider"}}

\* C30: start() on an active session and stop() on an inactive session
\* change nothing, and whenever a session is inactive every terminal UI,
\* exporter and tracer provider a start() of it created has been shut down.
C30_InactiveSessionHasNoLiveComponent ==
    /\ (ret.op = "start" /\ ret.before.sessions[ret.session]._active
           => Heap = ret.before)
    /\ (ret.op = "stop" /\ ~ret.before.sessions[ret.session]._active
           => Heap = ret.before)
    /\ \A self \in 1..Len(sessions) :
          ~sessions[self]._active => \A o \in Created(self) : ~objects[o].live

-----------------------------------------------------------------------------
(* Properties of log_retrieval *)

\* the metadata rows a log_retrieval call added, in the order written
AddedRows ==
    [i \in 1..(vm_seq - ret.before) |->
        CHOOSE m \in vector_metadata : m.id = ret.before + i]

\* C24: a log_retrieval call that returns has logged the query vector with
\* type=query first and then one embedding with type=retrieved for each
\* retrieved document, in order, with retrieval_rank the document's 1-based
\* position and retrieval_score its score.
C24_OneRetrievedRowPerDocument ==
    ret.op = "log_retrieval" /\ ret.out.ok =>
        /\ Len(AddedRows) = Len(ret.retrieved_docs) + 1
        /\ json_loads(AddedRows[1].metadata)["type"] = StrV(s_query)
        /\ \A i \in 1..Len(ret.retrieved_docs) :
              LET meta == json_loads(AddedRows[i + 1].metadata)
              IN  /\ meta["type"] = StrV(s_retrieved)
                  /\ meta["retrieval_rank"] = IntV(i)
                  /\ meta["retrieval_score"] = ret.scores[i]

-----------------------------------------------------------------------------
(* Properties of the trace decorator *)

\* the name given to trace_function when wrapper w was made, if any
SpanNameOf(w) == wrappers[w].span_name

\* C23: a call of a decorated function returns exactly what the undecorated
\* function returns for the same argument and raises what it raises; the
\* call has opened one span, named by the given name or else the function
\* name, before the body runs, and that span has ended when the call has
\* returned or raised.
C23_WrapperIsTransparentAndSpansTheCall ==
    /\ Len(otel_spans) = frame.calls
    /\ \A i \in 1..Len(otel_spans) :
          ~otel_spans[i].ended <=> (frame.pc # "idle" /\ frame.span = i)
    /\ (ret.op = "decorate" =>
          wrappers[Len(wrappers)].span_name =
             IF ~ret.bare /\ ret.name \notin {None, StrV(<<>>)} THEN ret.name
             ELSE ret.func.__name__)
    /\ (ret.op = "body" =>
          /\ ~ret.span.ended
          /\ ret.span.name = SpanNameOf(ret.wrapper))
    /\ (ret.op = "call" =>
          /\ ret.out = wrappers[ret.wrapper].func.body[ret.arg]
          /\ otel_spans[ret.span].ended
          /\ otel_spans[ret.span].name = SpanNameOf(ret.wrapper))

\* a function decorated with name=... has raised through its wrapper, and a
\* bare one has returned a value
C23_Witness ==
    /\ ret.op = "call"
    /\ ~ret.out.ok
    /\ otel_spans[ret.span].name = StrV(s_custom_span)
    /\ \E i \in 1..Len(otel_spans) :
          otel_spans[i].name = StrV(s_f) /\ otel_spans[i].status = "UNSET"

-----------------------------------------------------------------------------
(* Properties of the model registry *)

\* the entries of a table under keys other than `name`
OtherEntries(table, name) == {table[i] : i \in {j \in 1..Len(table) : table[j].key # name}}

\* C25: after register_custom_model(name, dim, limit, pricing) the shared
\* tables give the registered dimension, token limit and pricing for
\* exactly that name, whatever built-in keys are substrings of it; the table
\* of an omitted argument is unchanged, entries under other names are
\* unchanged, and extract_cost_info prices with the registered entry.
C25_RegisteredModelIsLookedUpExactly ==
    /\ \A i \in 1..Len(EMBEDDING_DIMS) :
          get_embedding_dim(EMBEDDING_DIMS, StrV(EMBEDDING_DIMS[i].key))
             = IntV(EMBEDDING_DIMS[i].value)
    /\ \A i \in 1..Len(TOKEN_LIMITS) :
          get_token_limit(TOKEN_LIMITS, StrV(TOKEN_LIMITS[i].key))
             = IntV(TOKEN_LIMITS[i].value)
    /\ \A i \in 1..Len(PRICING), provider \in PAID_PROVIDERS \cup {s_unknown} :
          get_pricing(PRICING, StrV(PRICING[i].key), provider) = Ok(PRICING[i])
    /\ (ret.op = "register_custom_model" =>
          /\ (Truthy(ret.embedding_dim) =>
                get_embedding_dim(EMBEDDING_DIMS, StrV(ret.name)) = ret.embedding_dim)
          /\ (Truthy(ret.token_limit) =>
                get_token_limit(TOKEN_LIMITS, StrV(ret.name)) = ret.token_limit)
          /\ (ret.pricing # NoPricing =>
                get_pricing(PRICING, StrV(ret.name), s_openai)
                   = Ok([ret.pricing EXCEPT !.key = ret.name]))
          /\ (~Truthy(ret.embedding_dim) => EMBEDDING_DIMS = ret.before.EMBEDDING_DIMS)
          /\ (~Truthy(ret.token_limit) => TOKEN_LIMITS = ret.before.TOKEN_LIMITS)
          /\ (ret.pricing = NoPricing => PRICING = ret.before.PRICING)
          /\ OtherEntries(EMBEDDING_DIMS, ret.name)
                = OtherEntries(ret.before.EMBEDDING_DIMS, ret.name)
          /\ OtherEntries(TOKEN_LIMITS, ret.name)
                = OtherEntries(ret.before.TOKEN_LIMITS, ret.name)
          /\ OtherEntries(PRICING, ret.name) = OtherEntries(ret.before.PRICING, ret.name))
    /\ (ret.op = "extract_cost_info" /\ ret.provider = s_openai
        /\ (\E i \in 1..Len(PRICING) :
               PRICING[i].key = ret.attributes["gen_ai.request.model"].s) =>
          LET entry == PRICING[CHOOSE i \in 1..Len(PRICING) :
                          PRICING[i].key = ret.attributes["gen_ai.request.model"].s]
          IN  ret.out.v.estimated_cost_usd =
                 UsdV(RoundHalfEven(1000 * entry.input_cost_per_1k
                                    + 500 * entry.output_cost_per_1k)))

\* all three tables now hold an entry for a name that contains a built-in
\* key, and a cost has been computed from its registered pricing
C25_Witness ==
    /\ ret.op = "extract_cost_info"
    /\ ret.provider = s_openai
    /\ ret.attributes["gen_ai.request.model"] = StrV(s_gpt4_custom)
    /\ ret.out.v.estimated_cost_usd = UsdV(2000)
    /\ get_embedding_dim(EMBEDDING_DIMS, StrV(s_bge)) = IntV(512)
    /\ get_token_limit(TOKEN_LIMITS, StrV(s_gpt4_custom)) = IntV(4096)

-----------------------------------------------------------------------------
(* Properties of replay *)

\* the model name of an attribute map: the request model when present, else
\* the response model, else null
ModelNameOf(attrs) ==
    IF "gen_ai.request.model" \in DOMAIN attrs THEN attrs["gen_ai.request.model"]
    ELSE IF "gen_ai.response.model" \in DOMAIN attrs THEN attrs["gen_ai.response.model"]
    ELSE None

\* C26: every persisted row retains the provider, the model name (the
\* request-model attribute when present, else the response-model attribute,
\* else null) and the attribute map of the span last exported under its
\* span_id, so that decoding the stored attributes gives that map back; a
\* replay read returns the provider, model, prompt and completion of that
\* span and leaves the spans table as it was.
C26_ReplayReadsOriginalCall ==
    /\ \A r \in spans :
          LET span == latest[r.span_id].span
              attrs == span.attributes
          IN  /\ json_loads(r.attributes) = attrs
              /\ r.provider = detect_provider(attrs).v
              /\ r.model_name = ModelNameOf(attrs)
    /\ (ret.op = "fork_span" =>
          /\ spans = ret.before
          /\ (ret.out.ok =>
                LET attrs == latest[ret.span_id].span.attributes
                IN  /\ ret.original.provider = detect_provider(attrs).v
                    /\ ret.original.model = ModelNameOf(attrs)
                    /\ ret.original.prompt =
                          IF "gen_ai.prompt" \in DOMAIN attrs
                          THEN attrs["gen_ai.prompt"] ELSE StrV(<<>>)
                    /\ ret.original.completion =
                          IF "gen_ai.completion" \in DOMAIN attrs
                          THEN attrs["gen_ai.completion"] ELSE StrV(<<>>)))

\* a completed call has been replayed with its prompt and completion, while
\* the store also holds a span known only by its response model
C26_Witness ==
    /\ ret.op = "fork_span"
    /\ ret.out.ok
    /\ ret.original.prompt = StrV(s_hi)
    /\ ret.original.completion = StrV(s_hello)
    /\ ret.original.model = StrV(s_gpt4)
    /\ \E r \in spans : r.model_name = StrV(s_Llama3)

-----------------------------------------------------------------------------
(* Properties of concurrent callers *)

\* the metadata rows that belong to the call of thread t
RowsOf(t) == {m \in vector_metadata : m.content = threads[t].text}

\* C27: when two concurrent log_embedding calls, both the first use of a
\* dimension, have ended, one table of that dimension exists, each call that
\* returned has stored one metadata row linked to its own vector, each call
\* that raised has stored nothing, and the table holds as many vectors as
\* calls returned.
C27_ConcurrentFirstUseStaysPaired ==
    (\A t \in Threads : threads[t].op = "log_embedding"
                        /\ threads[t].pc \in {"done", "raised"}) =>
        LET name == get_vector_table_name(2)
            returned == {t \in Threads : threads[t].pc = "done"}
        IN  /\ DOMAIN vector_tables \subseteq {name}
            /\ (returned # {} => DOMAIN vector_tables = {name})
            /\ \A t \in Threads :
                  IF t \in returned
                  THEN /\ Cardinality(RowsOf(t)) = 1
                       /\ \A m \in RowsOf(t) :
                             /\ m.table_name = name
                             /\ m.vector_rowid \in 1..Len(vector_tables[name])
                             /\ vector_tables[name][m.vector_rowid] = threads[t].vector
                  ELSE /\ RowsOf(t) = {}
                       /\ ~threads[t].out.ok
            /\ (name \in DOMAIN vector_tables =>
                  Len(vector_tables[name]) = Cardinality(returned))
            /\ \A m1, m2 \in vector_metadata :
                  m1.vector_rowid = m2.vector_rowid => m1 = m2

\* both calls have returned, with different vectors
C27_Witness ==
    /\ \A t \in Threads : threads[t].op = "log_embedding" /\ threads[t].pc = "done"
    /\ threads[1].vector # threads[2].vector
    /\ Cardinality(vector_metadata) = 2

\* the table after the whole batch of thread t was written to `table`
Applied(table, t) == ExecuteMany(table, threads[t].data, Len(threads[t].data))

\* the tables that some serial order of the whole batches of the threads in
\* `committed` leaves on an empty store
SerialOutcomes(committed) ==
    IF committed = {} THEN {{}}
    ELSE UNION {LET earlier == IF committed = {t} THEN {{}}
                               ELSE {Applied({}, u) : u \in committed \ {t}}
                IN  {Applied(rest, t) : rest \in earlier} : t \in committed}

\* C28: when two concurrent export calls that both hold a record of span 1
\* have ended, each has run its statement once and returned SUCCESS or
\* FAILURE, the table is what the whole batches of the successful calls
\* leave in one of their two orders, and the row of span 1 is the complete
\* row built from the record of one successful call.
C28_ConcurrentExportsAreSerialized ==
    (\A t \in Threads : threads[t].op = "export" /\ threads[t].pc = "done") =>
        LET committed == {t \in Threads : threads[t].result = "SUCCESS"}
        IN  /\ \A t \in Threads : /\ threads[t].result \in {"SUCCESS", "FAILURE"}
                                  /\ threads[t].executes <= 1
            /\ spans \in SerialOutcomes(committed)
            /\ \A r \in spans :
                  r.span_id = StrV(FormatHex(1, 16)) =>
                     \E t \in committed : \E i \in 1..Len(threads[t].data) :
                        r = threads[t].data[i]
            /\ (committed # {} => \E r \in spans : r.span_id = StrV(FormatHex(1, 16)))

\* both exports committed, with different records of span 1
C28_Witness ==
    /\ \A t \in Threads : /\ threads[t].op = "export" /\ threads[t].pc = "done"
                          /\ threads[t].result = "SUCCESS"
    /\ threads[1].batch # threads[2].batch
    /\ Len(threads[1].batch) = 2 /\ Len(threads[2].batch) = 2

-----------------------------------------------------------------------------
(* Properties of schema evolution *)

\* the row of `table` with the span_id of row r0
RowOf(table, r0) == CHOOSE r \in table : r.span_id = r0.span_id

\* C29: once the bootstrap and both migrations have run, in any order, on a
\* table that had the base and enrichment columns, the columns and their
\* declared types are those of a freshly created table, every column named
\* by the INSERT of export exists, an export the store accepts returns
\* SUCCESS, and every row the table held at the start that no export has
\* replaced has its old value in each of its old columns.
C29_UpgradedTableEqualsFreshTable ==
    (/\ upgrade.old.schema.table
     /\ DOMAIN Declared(BASE_COLUMNS) \subseteq DOMAIN upgrade.old.schema.columns
     /\ {"bootstrap", "performance", "streaming"} \subseteq upgrade.ops) =>
        /\ schema.file /\ schema.table
        /\ schema.columns = CurrentSchema.columns
        /\ INSERT_COLUMNS \subseteq DOMAIN schema.columns
        /\ (ret.op = "export" /\ ret.failAt = 0 /\ ret.conn = "open"
               => ret.result = "SUCCESS")
        /\ \A r0 \in upgrade.old.rows :
              /\ \E r \in spans : r.span_id = r0.span_id
              /\ r0.span_id \notin DOMAIN latest =>
                    \A c \in DOMAIN r0 : RowOf(spans, r0)[c] = r0[c]

\* a table that lacked performance and streaming columns has been upgraded
\* and an export has then been committed next to an old row
C29_Witness ==
    /\ {"bootstrap", "performance", "streaming"} \subseteq upgrade.ops
    /\ \E c \in DOMAIN Declared(performance_columns) :
          c \notin DOMAIN upgrade.old.schema.columns
    /\ \E c \in DOMAIN Declared(streaming_columns) :
          c \notin DOMAIN upgrade.old.schema.columns
    /\ \E c \in DOMAIN Declared(performance_columns) :
          c \in DOMAIN upgrade.old.schema.columns
    /\ ret.op = "export" /\ ret.result = "SUCCESS"
    /\ \E r0 \in upgrade.old.rows :
          r0.span_id \notin DOMAIN latest /\ r0 \notin spans
====
